---- MODULE Spec2Model ----
(***************************************************************************)
(* Verification model of the glacierui theming core: the override/merge    *)
(* engine (utils/override.ts), the ThemeOverride component and             *)
(* useThemeOverride hook, the override validator (utils/validation.ts),    *)
(* and the palette generator with its colour conversions.                  *)
(*                                                                         *)
(* JavaScript objects are references, so themes live in a heap: a sequence *)
(* of objects, an object being a function from its own keys to values.     *)
(* A value is a tagged record: a string, a number, null, an array (never   *)
(* mutated by this code, so held by value), or a reference to a heap       *)
(* object.  The tag "obj" is the literal (tree) form of an object, used    *)
(* for inputs before allocation and for deep comparison.                   *)
(***************************************************************************)
EXTENDS Integers, Sequences, FiniteSets, TLC

VARIABLES heap, pc, base, override, result, before,
          themeName, systemTheme, activeTheme, context, renders, enclosing,
          isTransitioning, storage, calls, stored, platform

vars == <<heap, pc, base, override, result, before,
          themeName, systemTheme, activeTheme, context, renders, enclosing,
          isTransitioning, storage, calls, stored, platform>>
\* The state of the asynchronous part of ThemeProvider, and all of its state
async == <<isTransitioning, storage, calls, stored, platform>>
provider == <<themeName, systemTheme, activeTheme, context, renders, enclosing, async>>

Str(s) == [t |-> "str", s |-> s]
Num(n) == [t |-> "num", n |-> n]
Arr(e) == [t |-> "arr", e |-> e]
Ref(a) == [t |-> "ref", a |-> a]
Obj(f) == [t |-> "obj", f |-> f]
Bool(b) == [t |-> "bool", b |-> b]
NullV == [t |-> "null"]
Undefined == [t |-> "undefined"]
EmptyObject == <<>>

\* No setTheme call and no load of the stored preference is part of the run.
NoAsync ==
  /\ isTransitioning = FALSE
  /\ storage = NullV
  /\ calls = <<>>
  /\ stored = NullV
  /\ platform = "web"

(***************************************************************************)
(* The registered themes.                                                  *)
(***************************************************************************)
nord ==
  Obj([name |-> Str("nord"),
       colors |-> Obj([primary |-> Str("#5E81AC"), primaryContent |-> Str("#ECEFF4"),
                       secondary |-> Str("#81A1C1"), secondaryContent |-> Str("#ECEFF4"),
                       accent |-> Str("#88C0D0"), accentContent |-> Str("#2E3440"),
                       neutral |-> Str("#4C566A"), neutralContent |-> Str("#ECEFF4"),
                       base100 |-> Str("#2E3440"), base200 |-> Str("#3B4252"),
                       base300 |-> Str("#434C5E"), baseContent |-> Str("#ECEFF4"),
                       info |-> Str("#81A1C1"), infoContent |-> Str("#ECEFF4"),
                       success |-> Str("#A3BE8C"), successContent |-> Str("#2E3440"),
                       warning |-> Str("#EBCB8B"), warningContent |-> Str("#2E3440"),
                       error |-> Str("#BF616A"), errorContent |-> Str("#ECEFF4")])])

accessible ==
  Obj([name |-> Str("accessible"),
       colors |-> Obj([primary |-> Str("#0052CC"), primaryContent |-> Str("#FFFFFF"),
                       secondary |-> Str("#006644"), secondaryContent |-> Str("#FFFFFF"),
                       accent |-> Str("#5F2AB0"), accentContent |-> Str("#FFFFFF"),
                       neutral |-> Str("#424242"), neutralContent |-> Str("#FFFFFF"),
                       base100 |-> Str("#FFFFFF"), base200 |-> Str("#F5F5F5"),
                       base300 |-> Str("#E0E0E0"), baseContent |-> Str("#000000"),
                       info |-> Str("#0052CC"), infoContent |-> Str("#FFFFFF"),
                       success |-> Str("#006644"), successContent |-> Str("#FFFFFF"),
                       warning |-> Str("#B76E00"), warningContent |-> Str("#FFFFFF"),
                       error |-> Str("#BE0000"), errorContent |-> Str("#FFFFFF")])])

(***************************************************************************)
(* Object.keys order.  Objects are functions, which carry no insertion     *)
(* order; keys are visited in this fixed order.  deepMerge writes a        *)
(* different slot for each key, so the order decides only which address a  *)
(* freshly created object gets.                                            *)
(***************************************************************************)
KeyOrder ==
  <<"name", "colors", "spacing", "typography", "colorMode", "tags",
    "primary", "primaryContent", "secondary", "secondaryContent",
    "accent", "accentContent", "neutral", "neutralContent",
    "base100", "base200", "base300", "baseContent",
    "background", "backgroundAlt", "backgroundContent", "surface", "surfaceContent",
    "info", "infoContent", "success", "successContent",
    "warning", "warningContent", "error", "errorContent",
    "text", "textAlt", "textMuted", "brand", "md", "fontSize", "shadow">>

RECURSIVE SetToSeq(_)
SetToSeq(S) ==
  IF S = {} THEN <<>>
  ELSE LET x == CHOOSE y \in S : TRUE IN <<x>> \o SetToSeq(S \ {x})

ObjectKeys(o) ==
  SelectSeq(KeyOrder, LAMBDA k : k \in DOMAIN o)
    \o SetToSeq(DOMAIN o \ {KeyOrder[i] : i \in DOMAIN KeyOrder})

(***************************************************************************)
(* Building an object literal in the heap, and reading a value back with   *)
(* every reference followed (the deep value deep equality compares).       *)
(***************************************************************************)
RECURSIVE Alloc(_, _), AllocFields(_, _, _, _)
Alloc(h, v) ==
  IF v.t # "obj" THEN [heap |-> h, val |-> v]
  ELSE LET r == AllocFields(h, v.f, ObjectKeys(v.f), EmptyObject)
       IN [heap |-> Append(r.heap, r.obj), val |-> Ref(Len(r.heap) + 1)]
AllocFields(h, f, keys, acc) ==
  IF keys = <<>> THEN [heap |-> h, obj |-> acc]
  ELSE LET r == Alloc(h, f[Head(keys)])
       IN AllocFields(r.heap, f, Tail(keys), acc @@ (Head(keys) :> r.val))

RECURSIVE Deep(_, _)
Deep(h, v) ==
  IF v.t = "ref" THEN Obj([k \in DOMAIN h[v.a] |-> Deep(h, h[v.a][k])])
  ELSE v

(***************************************************************************)
(* utils/override.ts                                                       *)
(***************************************************************************)
isObject(item) == item.t = "ref"

\* Mutants of Object.assign: one that replaces the target by the one-key
\* object, one that lets the target's own value win.
ObjectAssign_replaceTarget(h, a, key, value) == [h EXCEPT ![a] = (key :> value)]
ObjectAssign_targetWins(h, a, key, value) == [h EXCEPT ![a] = h[a] @@ (key :> value)]

\* Object.assign(target, { [key]: value })
ObjectAssign(h, a, key, value) == [h EXCEPT ![a] = (key :> value) @@ h[a]]

RECURSIVE deepMerge(_, _, _), deepMergeKeys(_, _, _, _)
deepMerge(h, target, source) ==
  IF ~isObject(target) \/ ~isObject(source)
  THEN [heap |-> h, ret |-> source]
  ELSE [heap |-> deepMergeKeys(h, target.a, source.a, ObjectKeys(h[source.a])),
        ret |-> target]
deepMergeKeys(h, ta, sa, keys) ==
  IF keys = <<>> THEN h
  ELSE LET key == Head(keys)
           sv == h[sa][key]
       IN IF isObject(sv)
          THEN LET h1 == IF key \notin DOMAIN h[ta]
                         THEN ObjectAssign(Append(h, EmptyObject), ta, key, Ref(Len(h) + 1))
                         ELSE h
               IN deepMergeKeys(deepMerge(h1, h1[ta][key], sv).heap, ta, sa, Tail(keys))
          ELSE deepMergeKeys(ObjectAssign(h, ta, key, sv), ta, sa, Tail(keys))

\* Mutant: the merge works on a deep copy of the base.
mergeTheme_onCopy(h, b, o) ==
  LET copy == Alloc(h, Deep(h, b))
  IN deepMerge(copy.heap, copy.val, o)

mergeTheme(h, b, o) == deepMerge(h, b, o)

(***************************************************************************)
(* Inputs of the merge: the registered themes and a theme that also holds  *)
(* an array and a null, against every override over three top-level keys   *)
(* whose values are leaves or objects of leaves.                           *)
(***************************************************************************)
custom ==
  Obj([name |-> Str("custom"),
       colors |-> Obj([primary |-> Arr(<<"#000000">>), md |-> NullV,
                       accent |-> Str("#112233")]),
       spacing |-> Arr(<<"a", "b">>)])

BaseThemes == {nord, accessible, custom}

OverrideLeaves == {Str("#ABCDEF"), NullV, Arr(<<"x", "y">>)}
OverrideTopKeys == {"name", "colors", "spacing"}
OverrideSubKeys == {"primary", "md"}

PartialObjects(keys, values) ==
  UNION {[s -> values] : s \in SUBSET keys}

OverrideSubObjects == {Obj(f) : f \in PartialObjects(OverrideSubKeys, OverrideLeaves)}
Overrides ==
  {Obj(f) : f \in PartialObjects(OverrideTopKeys, OverrideLeaves \cup OverrideSubObjects)}

(***************************************************************************)
(* One call of mergeTheme(base, override) on freshly built arguments.      *)
(***************************************************************************)
InitMerge ==
  \E b \in BaseThemes, o \in Overrides :
    LET rb == Alloc(<<>>, b)
        ro == Alloc(rb.heap, o)
    IN /\ heap = ro.heap
       /\ base = rb.val
       /\ override = ro.val
       /\ before = ro.heap
       /\ result = Undefined
       /\ pc = "call"
       /\ themeName = "nord"
       /\ systemTheme = "light"
       /\ activeTheme = Undefined
       /\ context = Undefined
       /\ renders = 0
       /\ enclosing = NullV
       /\ NoAsync

MergeTheme ==
  /\ pc = "call"
  /\ LET r == mergeTheme(heap, base, override)
     IN /\ heap' = r.heap
        /\ result' = r.ret
  /\ pc' = "done"
  /\ UNCHANGED <<base, override, before, provider>>

NextMerge == MergeTheme

SpecMerge == InitMerge /\ [][NextMerge]_vars

(***************************************************************************)
(* Reading the call back as deep values.                                   *)
(***************************************************************************)
BaseBefore == Deep(before, base)
BaseAfter == Deep(heap, base)
OverrideBefore == Deep(before, override)
OverrideAfter == Deep(heap, override)
Merged == Deep(heap, result)

\* C1: after mergeTheme(base, override) returns, the base theme and every
\* nested object of it hold the values they held before the call, and so does
\* the override; only the returned theme carries the merged values.
C1_MergeWorksOnACopy ==
  pc = "done" =>
    /\ \A a \in 1..Len(before) : heap[a] = before[a]
    /\ BaseAfter = BaseBefore
    /\ OverrideAfter = OverrideBefore

\* The override half of C1, which the code does keep.
C1_OverrideUnchanged == pc = "done" => OverrideAfter = OverrideBefore

\* C3: every path of base that the override does not mention (neither the
\* path nor a prefix of it is a key of the override) has in the result the
\* value it had in base; merging the empty override gives a theme deeply
\* equal to base.
RECURSIVE Preserved(_, _, _)
Preserved(bv, ov, rv) ==
  IF bv.t = "obj" /\ ov.t = "obj"
  THEN /\ rv.t = "obj"
       /\ \A k \in DOMAIN bv.f :
            /\ k \in DOMAIN rv.f
            /\ IF k \in DOMAIN ov.f
               THEN Preserved(bv.f[k], ov.f[k], rv.f[k])
               ELSE rv.f[k] = bv.f[k]
  ELSE TRUE

C3_MergePreservesUnspecified ==
  pc = "done" =>
    /\ Preserved(BaseBefore, OverrideBefore, Merged)
    /\ (OverrideBefore = Obj(EmptyObject) => Merged = BaseBefore)

C3_Witness ==
  /\ pc = "done"
  /\ BaseBefore = nord
  /\ OverrideBefore = Obj([colors |-> Obj([primary |-> Str("#ABCDEF")])])
  /\ Merged.f.colors.f.primary = Str("#ABCDEF")
  /\ Merged.f.colors.f.accent = Str("#88C0D0")
  /\ Merged.f.name = Str("nord")

\* C4: every key of the override whose value is not a plain object (a
\* string, null or an array) holds exactly the override's value in the
\* result, at the top level and in every nested object the merge recurses
\* into (the base holds an object there, or nothing); an array is replaced,
\* never combined with the array of the base.
RECURSIVE Replaced(_, _, _)
Replaced(bv, ov, rv) ==
  /\ rv.t = "obj"
  /\ \A k \in DOMAIN ov.f :
       /\ k \in DOMAIN rv.f
       /\ IF ov.f[k].t # "obj" THEN rv.f[k] = ov.f[k]
          ELSE IF k \notin DOMAIN bv.f THEN Replaced(Obj(EmptyObject), ov.f[k], rv.f[k])
          ELSE IF bv.f[k].t = "obj" THEN Replaced(bv.f[k], ov.f[k], rv.f[k])
          ELSE TRUE

C4_NonObjectsReplaceOutright ==
  pc = "done" => Replaced(BaseBefore, OverrideBefore, Merged)

C4_Witness ==
  /\ pc = "done"
  /\ BaseBefore = custom
  /\ OverrideBefore.f = [spacing |-> Arr(<<"x", "y">>),
                         colors |-> Obj([primary |-> NullV])]
  /\ Merged.f.spacing = Arr(<<"x", "y">>)
  /\ Merged.f.colors.f.primary = NullV

(***************************************************************************)
(* themes/index.ts: the registry.  The two theme objects are module-level  *)
(* constants, built once; every getTheme(name) returns the same object.    *)
(***************************************************************************)
RegistryNord == Alloc(<<>>, nord)
RegistryAccessible == Alloc(RegistryNord.heap, accessible)
RegistryHeap == RegistryAccessible.heap

themes == [nord |-> RegistryNord.val, accessible |-> RegistryAccessible.val]

getTheme(name) == IF name \in DOMAIN themes THEN themes[name] ELSE themes.nord

ThemePreferences == {"system", "nord", "accessible"}
SystemThemes == {"light", "dark"}

(***************************************************************************)
(* hooks/useTheme.ts: the value useMemo computes for activeTheme when      *)
(* themeName or systemTheme changed.  For 'system' it is a new object with *)
(* the properties of the nord theme object (a shallow spread, so its       *)
(* colors is the registry's colors object) and colorMode.                  *)
(***************************************************************************)
\* Mutant: the 'system' theme always in light mode.
activeThemeMemo_alwaysLight(h, name, system) ==
  IF name = "system"
  THEN LET baseTheme == getTheme("nord")
       IN [heap |-> Append(h, ("colorMode" :> Str("light")) @@ h[baseTheme.a]),
           val |-> Ref(Len(h) + 1)]
  ELSE [heap |-> h, val |-> getTheme(name)]

activeThemeMemo(h, name, system) ==
  IF name = "system"
  THEN LET baseTheme == getTheme("nord")
       IN [heap |-> Append(h, ("colorMode" :> Str(system)) @@ h[baseTheme.a]),
           val |-> Ref(Len(h) + 1)]
  ELSE [heap |-> h, val |-> getTheme(name)]

\* The theme definition a consumer of useTheme() is meant to see.
ThemeDefinition(name, system) ==
  IF name = "system" THEN Obj(("colorMode" :> Str(system)) @@ nord.f)
  ELSE IF name = "nord" THEN nord ELSE accessible

(***************************************************************************)
(* Overrides rendered in the component tree: the ones of the doc comments  *)
(* of ThemeOverride and useThemeOverride, and the empty one.               *)
(***************************************************************************)
RenderedOverrides ==
  {Obj(EmptyObject),
   Obj([colors |-> Obj([primary |-> Str("#FF0000")])]),
   Obj([colors |-> Obj([primary |-> Str("#FF0000"), primaryContent |-> Str("#FFFFFF"),
                        background |-> Str("#F0F0F0")])]),
   Obj([colors |-> Obj([background |-> Str("#F5F5F5"), text |-> Str("#000000"),
                        primary |-> Str("#0066CC")]),
        spacing |-> Obj([md |-> Num(20)])])}

MaxRenders == 2

InitOverride ==
  \E name \in ThemePreferences, system \in SystemThemes :
    LET r == activeThemeMemo(RegistryHeap, name, system)
    IN /\ heap = r.heap
       /\ activeTheme = r.val
       /\ themeName = name
       /\ systemTheme = system
       /\ context = NullV
       /\ renders = 0
       /\ enclosing = NullV
       /\ NoAsync
       /\ base = Undefined
       /\ override = Undefined
       /\ result = Undefined
       /\ before = r.heap
       /\ pc = "mounted"

\* <ThemeOverride theme={o}>: useTheme().theme merged with the override prop,
\* the merged theme provided to the subtree.  The component is rendered at
\* the top of the tree or inside the ThemeOverride rendered last: enclosing
\* is the value of ThemeOverrideContext around it, which it does not read.
ThemeOverride(o) ==
  /\ renders < MaxRenders
  /\ \E around \in {NullV, context} : enclosing' = around
  /\ LET ro == Alloc(heap, o)
         baseTheme == activeTheme
         mergedTheme == mergeTheme(ro.heap, baseTheme, ro.val)
     IN /\ heap' = mergedTheme.heap
        /\ context' = mergedTheme.ret
        /\ base' = baseTheme
        /\ override' = ro.val
        /\ result' = mergedTheme.ret
        /\ before' = ro.heap
  /\ renders' = renders + 1
  /\ pc' = "ThemeOverride"
  /\ UNCHANGED <<themeName, systemTheme, activeTheme, async>>

\* useThemeOverride(o) in a component outside any ThemeOverride.
useThemeOverride(o) ==
  /\ renders < MaxRenders
  /\ LET ro == Alloc(heap, o)
         theme == activeTheme
         merged == mergeTheme(ro.heap, theme, ro.val)
     IN /\ heap' = merged.heap
        /\ base' = theme
        /\ override' = ro.val
        /\ result' = merged.ret
        /\ before' = ro.heap
  /\ renders' = renders + 1
  /\ pc' = "useThemeOverride"
  /\ UNCHANGED <<themeName, systemTheme, activeTheme, context, enclosing, async>>

\* useOverriddenTheme() in a component at the top of the tree or inside the
\* ThemeOverride rendered last.
useOverriddenTheme ==
  /\ \E around \in {NullV, context} :
       /\ enclosing' = around
       /\ result' = IF around = NullV THEN activeTheme ELSE around
  /\ pc' = "useOverriddenTheme"
  /\ UNCHANGED <<heap, base, override, before, themeName, systemTheme, activeTheme,
                 context, renders, async>>

\* handleSystemThemeChange: setSystemTheme(getSystemTheme()), and the render
\* that follows recomputes activeTheme when systemTheme changed.  Every
\* render is counted, a 'system' one allocates the new theme object.  The
\* provider's render gives ThemeContext a new value, so every ThemeOverride
\* below renders again, from the top: none has rendered yet in this pass.
handleSystemThemeChange(system) ==
  /\ renders < MaxRenders
  /\ system # systemTheme
  /\ systemTheme' = system
  /\ LET r == activeThemeMemo(heap, themeName, system)
     IN /\ heap' = r.heap
        /\ activeTheme' = r.val
  /\ renders' = renders + 1
  /\ context' = NullV
  /\ enclosing' = NullV
  /\ pc' = "handleSystemThemeChange"
  /\ UNCHANGED <<themeName, base, override, result, before, async>>

NextOverride ==
  \/ \E o \in RenderedOverrides : ThemeOverride(o)
  \/ \E o \in RenderedOverrides : useThemeOverride(o)
  \/ useOverriddenTheme
  \/ \E system \in SystemThemes : handleSystemThemeChange(system)

SpecOverride == InitOverride /\ [][NextOverride]_vars

\* C2: whatever ThemeOverride renders and useThemeOverride calls happened,
\* the theme useTheme() gives outside the overridden subtree and the themes
\* getTheme(name) returns equal the original theme definitions.
C2_OverridesAreLocal ==
  /\ Deep(heap, activeTheme) = ThemeDefinition(themeName, systemTheme)
  /\ Deep(heap, getTheme("nord")) = nord
  /\ Deep(heap, getTheme("accessible")) = accessible

(***************************************************************************)
(* JavaScript strings and numbers used by the colour code.  A string is a  *)
(* TLA+ string, indexed from 0 as in the source.  NaN is a value outside   *)
(* the range of every number the colour code computes.                     *)
(***************************************************************************)
NaN == -1000000000

Min(a, b) == IF a < b THEN a ELSE b
Max(a, b) == IF a > b THEN a ELSE b

\* String.prototype.charAt, substring (two arguments, clamped to the length)
charAt(str, i) == IF i < Len(str) THEN SubSeq(str, i + 1, i + 1) ELSE ""
substring(str, start, end) ==
  LET a == Min(Min(start, end), Len(str))
      b == Min(Max(start, end), Len(str))
  IN IF a < b THEN SubSeq(str, a + 1, b) ELSE ""
substringFrom(str, start) == substring(str, start, Len(str))

HexDigitValue ==
  [c \in {"0", "1", "2", "3", "4", "5", "6", "7", "8", "9",
          "a", "b", "c", "d", "e", "f", "A", "B", "C", "D", "E", "F"} |->
     CASE c = "0" -> 0 [] c = "1" -> 1 [] c = "2" -> 2 [] c = "3" -> 3
       [] c = "4" -> 4 [] c = "5" -> 5 [] c = "6" -> 6 [] c = "7" -> 7
       [] c = "8" -> 8 [] c = "9" -> 9
       [] c \in {"a", "A"} -> 10 [] c \in {"b", "B"} -> 11
       [] c \in {"c", "C"} -> 12 [] c \in {"d", "D"} -> 13
       [] c \in {"e", "E"} -> 14 [] c \in {"f", "F"} -> 15]
isHexDigit(c) == c \in DOMAIN HexDigitValue
isDigit(c) == c \in {"0", "1", "2", "3", "4", "5", "6", "7", "8", "9"}
isSpace(c) == c = " "

\* parseInt(str, 16): leading white space, an optional sign, an optional 0x,
\* then the longest run of hex digits; NaN when that run is empty.
RECURSIVE parseHexDigits(_, _, _)
parseHexDigits(str, i, acc) ==
  IF i < Len(str) /\ isHexDigit(charAt(str, i))
  THEN parseHexDigits(str, i + 1, 16 * acc + HexDigitValue[charAt(str, i)])
  ELSE acc
RECURSIVE skipSpaces(_, _)
skipSpaces(str, i) ==
  IF i < Len(str) /\ isSpace(charAt(str, i)) THEN skipSpaces(str, i + 1) ELSE i
parseInt16(str) ==
  LET i0 == skipSpaces(str, 0)
      sign == IF charAt(str, i0) = "-" THEN -1 ELSE 1
      i1 == IF charAt(str, i0) \in {"-", "+"} THEN i0 + 1 ELSE i0
      i2 == IF substring(str, i1, i1 + 2) \in {"0x", "0X"} THEN i1 + 2 ELSE i1
  IN IF i2 < Len(str) /\ isHexDigit(charAt(str, i2))
     THEN sign * parseHexDigits(str, i2, 0)
     ELSE NaN

(***************************************************************************)
(* utils/colorUtils.ts: luminance and contrast.                            *)
(*                                                                         *)
(* SRGBLinear[c + 1] is the value of                                       *)
(*   s <= 0.03928 ? s / 12.92 : Math.pow((s + 0.055) / 1.055, 2.4)         *)
(* at s = c / 255, in units of 1/10000.  A luminance is in units of 1e-8   *)
(* (the weights 0.2126, 0.7152, 0.0722 in units of 1/10000), and a         *)
(* contrast ratio is the pair of its numerator and denominator.            *)
(***************************************************************************)
SRGBLinear ==
  <<
    0, 3, 6, 9, 12, 15, 18, 21, 24, 27, 30, 33, 37, 40, 44, 48,
    52, 56, 60, 65, 70, 75, 80, 86, 91, 97, 103, 110, 116, 123, 130, 137,
    144, 152, 160, 168, 176, 185, 194, 203, 212, 222, 232, 242, 252, 262, 273, 284,
    296, 307, 319, 331, 343, 356, 369, 382, 395, 409, 423, 437, 452, 467, 482, 497,
    513, 529, 545, 561, 578, 595, 612, 630, 648, 666, 685, 704, 723, 742, 762, 782,
    802, 823, 844, 865, 887, 908, 931, 953, 976, 999, 1022, 1046, 1070, 1095, 1119, 1144,
    1170, 1195, 1221, 1248, 1274, 1301, 1329, 1356, 1384, 1413, 1441, 1470, 1500, 1529, 1559, 1590,
    1620, 1651, 1683, 1714, 1746, 1779, 1812, 1845, 1878, 1912, 1946, 1981, 2016, 2051, 2086, 2122,
    2159, 2195, 2232, 2270, 2307, 2346, 2384, 2423, 2462, 2502, 2542, 2582, 2623, 2664, 2705, 2747,
    2789, 2831, 2874, 2918, 2961, 3005, 3050, 3095, 3140, 3185, 3231, 3278, 3325, 3372, 3419, 3467,
    3515, 3564, 3613, 3663, 3712, 3763, 3813, 3864, 3916, 3968, 4020, 4072, 4125, 4179, 4233, 4287,
    4342, 4397, 4452, 4508, 4564, 4621, 4678, 4735, 4793, 4851, 4910, 4969, 5029, 5089, 5149, 5210,
    5271, 5333, 5395, 5457, 5520, 5583, 5647, 5711, 5776, 5841, 5906, 5972, 6038, 6105, 6172, 6240,
    6308, 6376, 6445, 6514, 6584, 6654, 6724, 6795, 6867, 6939, 7011, 7084, 7157, 7231, 7305, 7379,
    7454, 7529, 7605, 7682, 7758, 7835, 7913, 7991, 8070, 8148, 8228, 8308, 8388, 8469, 8550, 8632,
    8714, 8796, 8879, 8963, 9047, 9131, 9216, 9301, 9387, 9473, 9560, 9647, 9734, 9823, 9911, 10000
  >>

linearize(c) ==
  IF c >= 0 THEN SRGBLinear[c + 1]
  ELSE -(((-c) * 200000 + 32946) \div 65892)

hexToRGB(hex) ==
  LET normalized == IF charAt(hex, 0) = "#" THEN substringFrom(hex, 1) ELSE hex
  IN [r |-> parseInt16(substring(normalized, 0, 2)),
      g |-> parseInt16(substring(normalized, 2, 4)),
      b |-> parseInt16(substring(normalized, 4, 6))]

getLuminance(rgb) ==
  IF NaN \in {rgb.r, rgb.g, rgb.b} THEN NaN
  ELSE 2126 * linearize(rgb.r) + 7152 * linearize(rgb.g) + 722 * linearize(rgb.b)

LuminanceOne == 100000000
LuminanceOffset == 5000000

\* (lighter + 0.05) / (darker + 0.05); Math.max and Math.min give NaN when an
\* argument is NaN.
contrastOfLuminances(l1, l2) ==
  IF l1 = NaN \/ l2 = NaN THEN [nan |-> TRUE, num |-> 0, den |-> 1]
  ELSE [nan |-> FALSE,
        num |-> Max(l1, l2) + LuminanceOffset,
        den |-> Min(l1, l2) + LuminanceOffset]

getContrastRatio(color1, color2) ==
  contrastOfLuminances(getLuminance(hexToRGB(color1)), getLuminance(hexToRGB(color2)))

\* ratio < n/d and ratio > n/d; every comparison with NaN is false.
ratioBelow(ratio, n, d) == ~ratio.nan /\ ratio.num * d < n * ratio.den
ratioAbove(ratio, n, d) == ~ratio.nan /\ ratio.num * d > n * ratio.den

\* Number.prototype.toFixed(2) of a ratio below 10, from the ratio at the
\* precision of the luminance units.
DigitString(d) == SubSeq("0123456789", d + 1, d + 1)
toFixed2(ratio) ==
  IF ratio.nan THEN "NaN"
  ELSE LET whole == ratio.num \div ratio.den
           rest == ratio.num % ratio.den
           cents == ((rest \div 64) * 100 + (ratio.den \div 128)) \div (ratio.den \div 64)
           w == IF cents = 100 THEN whole + 1 ELSE whole
           c == IF cents = 100 THEN 0 ELSE cents
       IN DigitString(w) \o "." \o DigitString(c \div 10) \o DigitString(c % 10)

(***************************************************************************)
(* utils/validation.ts                                                     *)
(***************************************************************************)
ValidationError(path, message) == [path |-> path, message |-> message]

\* /^#([A-Fa-f0-9]{6}|[A-Fa-f0-9]{3})$/
matchesHex(color) ==
  /\ Len(color) \in {4, 7}
  /\ charAt(color, 0) = "#"
  /\ \A i \in 1..(Len(color) - 1) : isHexDigit(charAt(color, i))

\* /^rgba?\((\d+),\s*(\d+),\s*(\d+)(?:,\s*(\d+(?:\.\d+)?))?\)$/
\* A matcher takes the index of the next character and gives the index after
\* its match, or NoMatch.  \d+ and \s* take the longest run: what follows
\* them in the pattern never starts with a character of the run.
NoMatch == -1
matchLiteral(str, i, lit) ==
  IF i # NoMatch /\ substring(str, i, i + Len(lit)) = lit /\ i + Len(lit) <= Len(str)
  THEN i + Len(lit) ELSE NoMatch
RECURSIVE skipDigits(_, _)
skipDigits(str, i) ==
  IF i < Len(str) /\ isDigit(charAt(str, i)) THEN skipDigits(str, i + 1) ELSE i
matchDigits(str, i) ==
  IF i # NoMatch /\ isDigit(charAt(str, i)) THEN skipDigits(str, i) ELSE NoMatch
matchSpaces(str, i) == IF i = NoMatch THEN NoMatch ELSE skipSpaces(str, i)
matchesRgb(color) ==
  LET p0 == matchLiteral(color, 0, "rgb")
      p1 == IF p0 # NoMatch /\ charAt(color, p0) = "a" THEN p0 + 1 ELSE p0
      red == matchDigits(color, matchLiteral(color, p1, "("))
      green == matchDigits(color, matchSpaces(color, matchLiteral(color, red, ",")))
      blue == matchDigits(color, matchSpaces(color, matchLiteral(color, green, ",")))
      alpha == matchDigits(color, matchSpaces(color, matchLiteral(color, blue, ",")))
      fraction == matchDigits(color, matchLiteral(color, alpha, "."))
  IN \E p \in {blue, alpha, fraction} :
       /\ p # NoMatch
       /\ matchLiteral(color, p, ")") = Len(color)

isValidColor_hex6Only(color) ==
  /\ Len(color) = 7
  /\ matchesHex(color)

isValidColor(color) == matchesHex(color) \/ matchesRgb(color)

AllowedThemeKeys == {"colors", "spacing", "typography"}

AllowedColorKeys ==
  {"primary", "primaryContent", "secondary", "secondaryContent",
   "accent", "accentContent", "background", "backgroundAlt", "backgroundContent",
   "surface", "surfaceContent", "success", "successContent",
   "warning", "warningContent", "error", "errorContent", "info", "infoContent",
   "text", "textAlt", "textMuted"}

validateStructure_none(o) == <<>>

validateStructure(o) ==
  LET unknown == SelectSeq(ObjectKeys(o.f), LAMBDA key : key \notin AllowedThemeKeys)
  IN [i \in 1..Len(unknown) |->
        ValidationError(<<unknown[i]>>, "Invalid theme key: " \o unknown[i])]

RECURSIVE validateColorsEntries(_, _)
validateColorsEntries(colors, keys) ==
  IF keys = <<>> THEN <<>>
  ELSE LET key == Head(keys)
           value == colors.f[key]
           keyError ==
             IF key \notin AllowedColorKeys
             THEN <<ValidationError(<<"colors", key>>, "Invalid color key: " \o key)>>
             ELSE <<>>
           valueError ==
             IF value.t = "str" /\ ~isValidColor(value.s)
             THEN <<ValidationError(<<"colors", key>>, "Invalid color value: " \o value.s)>>
             ELSE <<>>
       IN keyError \o valueError \o validateColorsEntries(colors, Tail(keys))

validateColors(colors) == validateColorsEntries(colors, ObjectKeys(colors.f))

ContrastPairs ==
  <<<<"primaryContent", "primary">>, <<"secondaryContent", "secondary">>,
    <<"accentContent", "accent">>, <<"text", "background">>,
    <<"textAlt", "backgroundAlt">>, <<"successContent", "success">>,
    <<"warningContent", "warning">>, <<"errorContent", "error">>,
    <<"infoContent", "info">>>>

\* colors[key], and JavaScript truthiness of a value
Property(o, key) == IF key \in DOMAIN o.f THEN o.f[key] ELSE Undefined
Truthy(v) ==
  CASE v.t = "str" -> v.s # ""
    [] v.t = "num" -> v.n # 0
    [] v.t = "bool" -> v.b
    [] v.t \in {"null", "undefined"} -> FALSE
    [] OTHER -> TRUE

MinContrastAA_three == <<3, 1>>
MinContrastAA == <<9, 2>>

\* The accessibility pass.  getContrastRatio calls hex.charAt on each colour:
\* a truthy colour that is not a string has no charAt and the call throws.
RECURSIVE validateAccessibilityPairs(_, _)
validateAccessibilityPairs(colors, pairs) ==
  IF pairs = <<>> THEN [raised |-> FALSE, errors |-> <<>>]
  ELSE LET content == Head(pairs)[1]
           background == Head(pairs)[2]
           c == Property(colors, content)
           b == Property(colors, background)
       IN IF Truthy(c) /\ Truthy(b)
          THEN IF c.t # "str" \/ b.t # "str"
               THEN [raised |-> TRUE, errors |-> <<>>]
               ELSE LET ratio == getContrastRatio(c.s, b.s)
                        found ==
                          IF ratioBelow(ratio, MinContrastAA[1], MinContrastAA[2])
                          THEN <<ValidationError(<<"colors", content>>,
                                   "Insufficient contrast (" \o toFixed2(ratio)
                                     \o ") with " \o background)>>
                          ELSE <<>>
                        rest == validateAccessibilityPairs(colors, Tail(pairs))
                    IN [raised |-> rest.raised, errors |-> found \o rest.errors]
          ELSE validateAccessibilityPairs(colors, Tail(pairs))

validateAccessibility(colors) == validateAccessibilityPairs(colors, ContrastPairs)

Raised == [raised |-> TRUE]

validateOverride_shortCircuit(o) ==
  LET structure == validateStructure(o)
      colors == Property(o, "colors")
      values == IF Truthy(colors) THEN validateColors(colors) ELSE <<>>
      access == IF Truthy(colors) THEN validateAccessibility(colors)
                ELSE [raised |-> FALSE, errors |-> <<>>]
      errors == IF structure # <<>> THEN structure
                ELSE IF values # <<>> THEN values ELSE access.errors
  IN IF access.raised THEN Raised
     ELSE [raised |-> FALSE, isValid |-> Len(errors) = 0, errors |-> errors]

validateOverride(o) ==
  LET structure == validateStructure(o)
      colors == Property(o, "colors")
      values == IF Truthy(colors) THEN validateColors(colors) ELSE <<>>
      access == IF Truthy(colors) THEN validateAccessibility(colors)
                ELSE [raised |-> FALSE, errors |-> <<>>]
      errors == structure \o values \o access.errors
  IN IF access.raised THEN Raised
     ELSE [raised |-> FALSE, isValid |-> Len(errors) = 0, errors |-> errors]

(***************************************************************************)
(* Overrides handed to the validator: colours for two of the contrast      *)
(* pairs and for a role that is not a colour role, with well-formed and    *)
(* malformed colour strings and a number, next to unknown top-level keys.  *)
(***************************************************************************)
PairColorValues ==
  {Str("#FFFFFF"), Str("#000000"), Str("#767676"), Str("#777777"), Str("#fff"),
   Str("rgb(0, 0, 0)"), Str("not-a-color"), Str(""), Num(123)}
SecondPairColorValues == {Str("#FFFFFF"), Str("#767676"), Str("not-a-color")}
OtherColorValues ==
  {Str("#FFFFFF"), Str("#abc"), Str("rgba(1,2,3,0.5)"), Str("rgba(10, 20,  30, 1)"),
   Str("#ffff"), Str("#GGGGGG"), Str("#FFFFFF "), Str("rgb(0,0)"),
   Str("rgba(0,0,0,.5)"), Str("rgb(0 ,0,0)"), Str("rgb(0,0,0,0.5,1)"), Str("red")}

ColorOverrides ==
  {Obj(f) : f \in
     {a @@ b @@ c : a \in PartialObjects({"text", "background"}, PairColorValues),
                    b \in PartialObjects({"primaryContent", "primary"}, SecondPairColorValues),
                    c \in PartialObjects({"brand"}, {Str("red")})}
     \cup
     {a @@ c : a \in PartialObjects({"text"}, {Str("#777777"), Str("not-a-color")}),
               c \in PartialObjects({"brand"}, OtherColorValues)}}

OtherSections ==
  {EmptyObject,
   [shadow |-> Str("0 1px 2px")],
   [spacing |-> Obj([md |-> Num(20)])],
   [shadow |-> Str("0 1px 2px"), fontSize |-> Num(14)]}

ValidatedOverrides ==
  {Obj(f) : f \in
     {a @@ b : a \in PartialObjects({"colors"}, {NullV} \cup ColorOverrides),
               b \in OtherSections}}

InitValidate ==
  /\ override \in ValidatedOverrides
  /\ result = Undefined
  /\ pc = "call"
  /\ heap = <<>>
  /\ before = <<>>
  /\ base = Undefined
  /\ themeName = "nord"
  /\ systemTheme = "light"
  /\ activeTheme = Undefined
  /\ context = Undefined
  /\ renders = 0
  /\ enclosing = NullV
  /\ NoAsync

ValidateOverride ==
  /\ pc = "call"
  /\ result' = validateOverride(override)
  /\ pc' = "done"
  /\ UNCHANGED <<heap, before, base, override, provider>>

NextValidate == ValidateOverride

SpecValidate == InitValidate /\ [][NextValidate]_vars

(***************************************************************************)
(* Reading the validator's result.                                         *)
(***************************************************************************)
Returned == pc = "done" /\ ~result.raised
startsWith(str, prefix) == substring(str, 0, Len(prefix)) = prefix
ErrorsAt(errors, path, prefix) ==
  {i \in DOMAIN errors : errors[i].path = path /\ startsWith(errors[i].message, prefix)}
ColorsOf(o) == Property(o, "colors")

\* C5: mergeTheme and validateOverride return normally for every override,
\* colour roles whose value is not a string included; problems are reported
\* only in the returned errors list.
C5_ValidationNeverRaises == pc = "done" => ~result.raised

\* C6: the errors list of validateOverride is the structure errors, then the
\* colour-value errors, then the accessibility errors, each pass run whether
\* or not an earlier one found errors; every unknown top-level key has
\* exactly one error with path [key]; isValid is true iff the list is empty.
C6_PassesAreConcatenated ==
  Returned =>
    LET colors == ColorsOf(override)
        structure == validateStructure(override)
        values == IF Truthy(colors) THEN validateColors(colors) ELSE <<>>
        access == IF Truthy(colors) THEN validateAccessibility(colors).errors ELSE <<>>
    IN /\ result.errors = structure \o values \o access
       /\ \A key \in DOMAIN override.f :
            Cardinality(ErrorsAt(result.errors, <<key>>, "")) =
              IF key \in {"colors", "spacing", "typography"} THEN 0 ELSE 1
       /\ result.isValid <=> (result.errors = <<>>)

C6_Witness ==
  /\ Returned
  /\ "shadow" \in DOMAIN override.f
  /\ ColorsOf(override) = Obj([text |-> Str("#777777"), background |-> Str("#FFFFFF"),
                               brand |-> Str("red")])
  /\ Len(result.errors) = 4
  /\ result.errors[1].path = <<"shadow">>
  /\ result.errors[2].path = <<"colors", "brand">>
  /\ result.errors[3].path = <<"colors", "brand">>
  /\ result.errors[4].path = <<"colors", "text">>
  /\ ~result.isValid

\* C7: for every entry (key, value) of override.colors the result holds one
\* error with path ['colors', key] for a key that is not a colour role, and
\* one with the same path for a string value that is neither 3- or 6-digit
\* hex nor rgb()/rgba(); an allowed key with a matching value has none.
WellFormedColors ==
  {"#FFFFFF", "#000000", "#767676", "#777777", "#fff", "#abc",
   "rgb(0, 0, 0)", "rgba(1,2,3,0.5)", "rgba(10, 20,  30, 1)"}

C7_ColorValuePass ==
  (Returned /\ Truthy(ColorsOf(override))) =>
    \A key \in DOMAIN ColorsOf(override).f :
      LET value == ColorsOf(override).f[key]
          keyErrors == ErrorsAt(result.errors, <<"colors", key>>, "Invalid color key")
          valueErrors == ErrorsAt(result.errors, <<"colors", key>>, "Invalid color value")
      IN /\ Cardinality(keyErrors) = IF key \in AllowedColorKeys THEN 0 ELSE 1
         /\ Cardinality(valueErrors) =
              IF value.t = "str" /\ value.s \notin WellFormedColors THEN 1 ELSE 0

C7_Witness ==
  /\ Returned
  /\ ColorsOf(override) = Obj([primary |-> Str("not-a-color")])
  /\ ~result.isValid
  /\ \E i \in DOMAIN result.errors : result.errors[i].path = <<"colors", "primary">>

\* C8: for each of the nine (content, background) pairs the result holds
\* exactly one insufficient-contrast error with path ['colors', content] when
\* both colours are present (6-digit hex) with a contrast ratio below 4.5,
\* and none when either colour is absent or the ratio is at least 4.5.
isHexColor6(v) == v.t = "str" /\ Len(v.s) = 7 /\ matchesHex(v.s)

C8_AccessibilityPass ==
  (Returned /\ Truthy(ColorsOf(override))) =>
    \A i \in DOMAIN ContrastPairs :
      LET content == ContrastPairs[i][1]
          background == ContrastPairs[i][2]
          c == Property(ColorsOf(override), content)
          b == Property(ColorsOf(override), background)
          found == Cardinality(ErrorsAt(result.errors, <<"colors", content>>,
                                        "Insufficient contrast"))
      IN /\ (c = Undefined \/ b = Undefined) => found = 0
         /\ (isHexColor6(c) /\ isHexColor6(b)) =>
              found = IF ratioBelow(getContrastRatio(c.s, b.s), 9, 2) THEN 1 ELSE 0

C8_Witness ==
  /\ Returned
  /\ ColorsOf(override) = Obj([text |-> Str("#777777"), background |-> Str("#FFFFFF"),
                               primaryContent |-> Str("#FFFFFF"), primary |-> Str("#767676")])
  /\ Len(result.errors) = 1
  /\ result.errors[1].path = <<"colors", "text">>
  /\ result.errors[1].message = "Insufficient contrast (4.48) with background"

(***************************************************************************)
(* Exact fractions for the floating-point arithmetic of the conversions.   *)
(* A fraction is kept in lowest terms with a positive denominator.  The    *)
(* source computes in IEEE doubles: where a channel is exactly a half in   *)
(* exact arithmetic (light and dark of some saturated colours) the double  *)
(* may fall just below it and Math.round give one less than here.          *)
(* NaN is the fraction with denominator 0: arithmetic, Math.min and       *)
(* Math.max propagate it, and every comparison with it is false.           *)
(***************************************************************************)
FNaN == [n |-> 0, d |-> 0]
isNaNF(x) == x.d = 0
Abs(x) == IF x < 0 THEN -x ELSE x
RECURSIVE Gcd(_, _)
Gcd(a, b) == IF b = 0 THEN a ELSE Gcd(b, a % b)
Frac(n, d) ==
  LET g == Gcd(Abs(n), Abs(d))
      sgn == IF d < 0 THEN -1 ELSE 1
  IN [n |-> sgn * (n \div g), d |-> sgn * (d \div g)]
Whole(n) == [n |-> n, d |-> 1]
FAdd(x, y) ==
  LET g == Gcd(x.d, y.d)
  IN IF isNaNF(x) \/ isNaNF(y) THEN FNaN
     ELSE Frac(x.n * (y.d \div g) + y.n * (x.d \div g), (x.d \div g) * y.d)
FNeg(x) == [n |-> -x.n, d |-> x.d]
FSub(x, y) == FAdd(x, FNeg(y))
FMul(x, y) ==
  LET g1 == Gcd(Abs(x.n), y.d)
      g2 == Gcd(Abs(y.n), x.d)
  IN IF isNaNF(x) \/ isNaNF(y) THEN FNaN
     ELSE IF x.n = 0 \/ y.n = 0 THEN Whole(0)
     ELSE Frac((x.n \div g1) * (y.n \div g2), (x.d \div g2) * (y.d \div g1))
FDiv(x, y) == FMul(x, IF y.n < 0 THEN [n |-> -y.d, d |-> -y.n] ELSE [n |-> y.d, d |-> y.n])
FLess(x, y) == FSub(x, y).n < 0
FMin(x, y) == IF isNaNF(x) \/ isNaNF(y) THEN FNaN ELSE IF FLess(y, x) THEN y ELSE x
FMax(x, y) == IF isNaNF(x) \/ isNaNF(y) THEN FNaN ELSE IF FLess(x, y) THEN y ELSE x
\* Math.round: the nearest integer, a half rounded up; NaN for NaN
FRound(x) == IF isNaNF(x) THEN NaN ELSE (2 * x.n + x.d) \div (2 * x.d)
\* a channel number divided by 255
Channel(c) == IF c = NaN THEN FNaN ELSE Frac(c, 255)

(***************************************************************************)
(* utils/colorConverter.ts                                                 *)
(***************************************************************************)
hexToRgb(hex) ==
  LET normalized == IF charAt(hex, 0) = "#" THEN substringFrom(hex, 1) ELSE hex
      r == parseInt16(substring(normalized, 0, 2))
      g == parseInt16(substring(normalized, 2, 4))
      b == parseInt16(substring(normalized, 4, 6))
  IN [r |-> r, g |-> g, b |-> b]

\* h in sixths of a turn.  switch (max) matches no case when max is NaN
\* and h stays 0
hueOf(r, g, b, max, min, d) ==
  IF isNaNF(max) \/ max = min THEN Whole(0)
  ELSE IF max = r
       THEN FAdd(FDiv(FSub(g, b), d), IF FLess(g, b) THEN Whole(6) ELSE Whole(0))
  ELSE IF max = g THEN FAdd(FDiv(FSub(b, r), d), Whole(2))
  ELSE FAdd(FDiv(FSub(r, g), d), Whole(4))

saturationOf(max, min, l, d) ==
  IF ~isNaNF(max) /\ max = min THEN Whole(0)
  ELSE IF FLess(Frac(1, 2), l)
       THEN FDiv(d, FSub(FSub(Whole(2), max), min))
       ELSE FDiv(d, FAdd(max, min))

\* the statements of rgbToHsl after max and min are computed
hslOfRange(r, g, b, max, min) ==
  [h |-> FMul(FDiv(hueOf(r, g, b, max, min, FSub(max, min)), Whole(6)), Whole(360)),
   s |-> FMul(saturationOf(max, min, FDiv(FAdd(max, min), Whole(2)), FSub(max, min)),
              Whole(100)),
   l |-> FMul(FDiv(FAdd(max, min), Whole(2)), Whole(100))]

\* the statements of rgbToHsl after the channels are divided by 255
hslOfChannels(r, g, b) == hslOfRange(r, g, b, FMax(FMax(r, g), b), FMin(FMin(r, g), b))

rgbToHsl(rgb) == hslOfChannels(Channel(rgb.r), Channel(rgb.g), Channel(rgb.b))

toHex2(x) ==
  IF x = NaN THEN "NaN" ELSE
  SubSeq("0123456789abcdef", (x \div 16) + 1, (x \div 16) + 1)
    \o SubSeq("0123456789abcdef", (x % 16) + 1, (x % 16) + 1)

\* '#' + [r, g, b].map(clamp and round).map(toString(16).padStart(2, '0'))
rgbToHex(r, g, b) ==
  LET clamp(x) == IF x = NaN THEN NaN ELSE Max(0, Min(255, x))
  IN "#" \o toHex2(clamp(r)) \o toHex2(clamp(g)) \o toHex2(clamp(b))

\* hue2rgb after t is brought into 0..1
hueChannel(p, q, t) ==
  IF FLess(t, Frac(1, 6)) THEN FAdd(p, FMul(FMul(FSub(q, p), Whole(6)), t))
  ELSE IF FLess(t, Frac(1, 2)) THEN q
  ELSE IF FLess(t, Frac(2, 3))
       THEN FAdd(p, FMul(FMul(FSub(q, p), FSub(Frac(2, 3), t)), Whole(6)))
  ELSE p

\* if (t < 0) t += 1
wrapBelow(t) == IF FLess(t, Whole(0)) THEN FAdd(t, Whole(1)) ELSE t
\* if (t > 1) t -= 1
wrapAbove(t) == IF FLess(Whole(1), t) THEN FSub(t, Whole(1)) ELSE t

hue2rgb(p, q, t0) == hueChannel(p, q, wrapAbove(wrapBelow(t0)))

\* the statements of hslToHex after q is computed; p is 2 * l - q
hexOfHue(h, s, l, q) ==
  rgbToHex(FRound(FMul(IF s = Whole(0) THEN l
                       ELSE hue2rgb(FSub(FMul(Whole(2), l), q), q, FAdd(h, Frac(1, 3))),
                       Whole(255))),
           FRound(FMul(IF s = Whole(0) THEN l
                       ELSE hue2rgb(FSub(FMul(Whole(2), l), q), q, h),
                       Whole(255))),
           FRound(FMul(IF s = Whole(0) THEN l
                       ELSE hue2rgb(FSub(FMul(Whole(2), l), q), q, FSub(h, Frac(1, 3))),
                       Whole(255))))

\* the statements of hslToHex after h, s and l are divided
hexOfHsl(h, s, l) ==
  hexOfHue(h, s, l, IF FLess(l, Frac(1, 2)) THEN FMul(l, FAdd(Whole(1), s))
                    ELSE FSub(FAdd(l, s), FMul(l, s)))

hslToHex(hsl) ==
  hexOfHsl(FDiv(hsl.h, Whole(360)), FDiv(hsl.s, Whole(100)), FDiv(hsl.l, Whole(100)))

calculateLuminance(rgb) ==
  IF NaN \in {rgb.r, rgb.g, rgb.b} THEN NaN
  ELSE 2126 * linearize(rgb.r) + 7152 * linearize(rgb.g) + 722 * linearize(rgb.b)

calculateContrast(l1, l2) == contrastOfLuminances(l1, l2)

\* Math.max(contrastWithWhite, contrastWithBlack) >= n is computed as one of
\* the two being >= n, which is the same for numbers and false for NaN.
getAccessibilityInfo(hex) ==
  LET luminance == calculateLuminance(hexToRgb(hex))
      contrastWithWhite == calculateContrast(luminance, LuminanceOne)
      contrastWithBlack == calculateContrast(luminance, 0)
      maxAtLeast(n, d) ==
        /\ ~contrastWithWhite.nan
        /\ ~ratioBelow(contrastWithWhite, n, d) \/ ~ratioBelow(contrastWithBlack, n, d)
  IN [contrastWithWhite |-> contrastWithWhite,
      contrastWithBlack |-> contrastWithBlack,
      passesAA |-> maxAtLeast(9, 2),
      passesAAA |-> maxAtLeast(7, 1)]

(***************************************************************************)
(* generators/colorDepth.ts                                                *)
(***************************************************************************)
ShadeKeys == <<50, 100, 200, 300, 400, 500, 600, 700, 800, 900>>

\* hslToHex({ ...hsl, l })
shade(hsl, l) == hslToHex([hsl EXCEPT !.l = Whole(l)])

\* the shades of generateColorDepth from the base colour's hsl
depthOf(baseColor, hsl) ==
  (50 :> shade(hsl, 98)) @@ (100 :> shade(hsl, 90)) @@ (200 :> shade(hsl, 80))
    @@ (300 :> shade(hsl, 70)) @@ (400 :> shade(hsl, 60)) @@ (500 :> baseColor)
    @@ (600 :> shade(hsl, 40)) @@ (700 :> shade(hsl, 30)) @@ (800 :> shade(hsl, 20))
    @@ (900 :> shade(hsl, 10))

generateColorDepth(baseColor) == depthOf(baseColor, rgbToHsl(hexToRgb(baseColor)))

\* the colours of generateSemanticColor from the base colour's hsl and
\* whether its contrast with white is high enough for white text
semanticOf(baseColor, hsl, whiteText) ==
  [base |-> baseColor,
   light |-> hslToHex([hsl EXCEPT !.l = FMin(FAdd(hsl.l, Whole(15)), Whole(100))]),
   dark |-> hslToHex([hsl EXCEPT !.l = FMax(FSub(hsl.l, Whole(15)), Whole(0))]),
   bg |-> hslToHex([hsl EXCEPT !.l = Whole(95),
                               !.s = FMax(FSub(hsl.s, Whole(30)), Whole(0))]),
   text |-> IF whiteText THEN "#FFFFFF" ELSE "#000000"]

\* Mutant: the text colour chosen by the AAA threshold.
generateSemanticColor_thresholdAAA(baseColor) ==
  semanticOf(baseColor, rgbToHsl(hexToRgb(baseColor)),
             ratioAbove(getAccessibilityInfo(baseColor).contrastWithWhite, 7, 1))

generateSemanticColor(baseColor) ==
  semanticOf(baseColor, rgbToHsl(hexToRgb(baseColor)),
             ratioAbove(getAccessibilityInfo(baseColor).contrastWithWhite, 9, 2))

(***************************************************************************)
(* Base colours handed to the generators: every 6-digit hex colour whose   *)
(* channels are among these byte values.                                   *)
(***************************************************************************)
ChannelBytes == {"00", "5E", "76", "AC", "FF"}
BaseColors == {"#" \o r \o g \o b : r \in ChannelBytes, g \in ChannelBytes, b \in ChannelBytes}

InitColor ==
  /\ base \in BaseColors
  /\ result = Undefined
  /\ pc = "call"
  /\ heap = <<>>
  /\ before = <<>>
  /\ override = Undefined
  /\ themeName = "nord"
  /\ systemTheme = "light"
  /\ activeTheme = Undefined
  /\ context = Undefined
  /\ renders = 0
  /\ enclosing = NullV
  /\ NoAsync

GenerateColorDepth ==
  /\ pc = "call"
  /\ result' = generateColorDepth(base)
  /\ pc' = "generateColorDepth"
  /\ UNCHANGED <<heap, before, base, override, provider>>

GenerateSemanticColor ==
  /\ pc = "call"
  /\ result' = generateSemanticColor(base)
  /\ pc' = "generateSemanticColor"
  /\ UNCHANGED <<heap, before, base, override, provider>>

NextColor == GenerateColorDepth \/ GenerateSemanticColor

SpecColor == InitColor /\ [][NextColor]_vars

\* HSL lightness of a hex colour, and its luminance
Lightness(hex) == rgbToHsl(hexToRgb(hex)).l
Luminance(hex) == getLuminance(hexToRGB(hex))

\* C9: generateColorDepth(base)[500] is exactly base, and the lightness of
\* the shades strictly decreases over the keys 50, 100, ..., 900.
C9_PaletteInvariant ==
  pc = "generateColorDepth" =>
    /\ result[500] = base
    /\ \A i \in 1..(Len(ShadeKeys) - 1) :
         FLess(Lightness(result[ShadeKeys[i + 1]]), Lightness(result[ShadeKeys[i]]))

\* The base shade is the base string itself (the half of C9 the code keeps).
C9_BaseShadeIsBase == pc = "generateColorDepth" => result[500] = base

\* C10 as claimed: text is '#FFFFFF' exactly when white contrasts more with
\* base than black does, i.e. (1.05 / (L + 0.05)) > ((L + 0.05) / 0.05),
\* which is (L + 0.05)^2 < 0.0525, L + 0.05 <= 0.22912878.
WhiteContrastsMore(hex) == Luminance(hex) + LuminanceOffset <= 22912878

C10_TextIsHigherContrast ==
  pc = "generateSemanticColor" =>
    (result.text = "#FFFFFF" <=> WhiteContrastsMore(base))

\* C10 as amended: text is '#FFFFFF' exactly when the contrast ratio of
\* white against base is greater than 4.5, and '#000000' otherwise.
C10_TextIsWhiteAboveAA ==
  pc = "generateSemanticColor" =>
    /\ result.text \in {"#FFFFFF", "#000000"}
    /\ result.text = "#FFFFFF" <=>
         2 * (LuminanceOne + LuminanceOffset) > 9 * (Luminance(base) + LuminanceOffset)

C10_Witness ==
  /\ pc = "generateSemanticColor"
  /\ base = "#767676"
  /\ result.text = "#FFFFFF"
  /\ ~WhiteContrastsMore(base)

(***************************************************************************)
(* constants/colorWords.ts: the colour-word dictionary and its lookup.     *)
(* The table is kept as the sequence of its entries in insertion order,    *)
(* which is the order Object.entries gives for string keys.                *)
(***************************************************************************)
colorWords ==
  <<
    [name |-> "red", hex |-> "#FF0000", category |-> "primary",
     variants |-> <<"crimson", "scarlet", "ruby", "maroon", "burgundy",
                  "cardinal", "carmine">>],
    [name |-> "blue", hex |-> "#0000FF", category |-> "primary",
     variants |-> <<"azure", "sapphire", "navy", "cobalt", "indigo",
                  "cerulean", "royal">>],
    [name |-> "green", hex |-> "#00FF00", category |-> "primary",
     variants |-> <<"emerald", "forest", "lime", "sage", "olive", "jade",
                  "mint", "pine">>],
    [name |-> "gray", hex |-> "#808080", category |-> "neutral",
     variants |-> <<"silver", "slate", "charcoal", "ash", "graphite",
                  "pewter", "smoke">>],
    [name |-> "white", hex |-> "#FFFFFF", category |-> "neutral",
     variants |-> <<"snow", "ivory", "pearl", "alabaster", "eggshell",
                  "cream">>],
    [name |-> "black", hex |-> "#000000", category |-> "neutral",
     variants |-> <<"onyx", "ebony", "jet", "obsidian", "raven",
                  "midnight">>],
    [name |-> "purple", hex |-> "#800080", category |-> "accent",
     variants |-> <<"violet", "lavender", "plum", "mauve", "amethyst",
                  "orchid", "wine">>],
    [name |-> "orange", hex |-> "#FFA500", category |-> "accent",
     variants |-> <<"coral", "peach", "amber", "tangerine", "rust", "bronze",
                  "copper">>],
    [name |-> "pink", hex |-> "#FFC0CB", category |-> "accent",
     variants |-> <<"rose", "magenta", "fuchsia", "salmon", "blush",
                  "cerise", "ruby">>],
    [name |-> "yellow", hex |-> "#FFFF00", category |-> "accent",
     variants |-> <<"gold", "lemon", "mustard", "honey", "butter",
                  "daffodil", "canary">>],
    [name |-> "brown", hex |-> "#A52A2A", category |-> "neutral",
     variants |-> <<"chocolate", "coffee", "sienna", "mahogany", "umber",
                  "sepia", "tan">>],
    [name |-> "teal", hex |-> "#008080", category |-> "accent",
     variants |-> <<"turquoise", "aqua", "cyan", "seafoam", "marine",
                  "ocean", "lagoon">>],
    [name |-> "indigo", hex |-> "#4B0082", category |-> "accent",
     variants |-> <<"periwinkle", "royal", "midnight", "cosmic",
                  "twilight">>],
    [name |-> "cyan", hex |-> "#00FFFF", category |-> "accent",
     variants |-> <<"aqua", "azure", "sky", "crystal", "ice">>],
    [name |-> "maroon", hex |-> "#800000", category |-> "accent",
     variants |-> <<"burgundy", "wine", "blood", "crimson", "garnet">>],
    [name |-> "olive", hex |-> "#808000", category |-> "accent",
     variants |-> <<"moss", "sage", "khaki", "army", "forest">>],
    [name |-> "beige", hex |-> "#F5F5DC", category |-> "neutral",
     variants |-> <<"ecru", "cream", "sand", "khaki", "tan">>]
  >>

UpperCase == "ABCDEFGHIJKLMNOPQRSTUVWXYZ"
LowerCase == "abcdefghijklmnopqrstuvwxyz"

\* String.prototype.toLowerCase and trim
lowerChar(c) ==
  IF \E i \in 1..Len(UpperCase) : SubSeq(UpperCase, i, i) = c
  THEN LET i == CHOOSE i \in 1..Len(UpperCase) : SubSeq(UpperCase, i, i) = c
       IN SubSeq(LowerCase, i, i)
  ELSE c
RECURSIVE toLowerCase(_)
toLowerCase(str) ==
  IF str = "" THEN ""
  ELSE lowerChar(SubSeq(str, 1, 1)) \o toLowerCase(SubSeq(str, 2, Len(str)))
RECURSIVE trimEnd(_)
trimEnd(str) ==
  IF str # "" /\ isSpace(SubSeq(str, Len(str), Len(str)))
  THEN trimEnd(SubSeq(str, 1, Len(str) - 1))
  ELSE str
trim(str) == trimEnd(substringFrom(str, skipSpaces(str, 0)))

Range(seq) == {seq[i] : i \in DOMAIN seq}
CanonicalNames == {colorWords[i].name : i \in DOMAIN colorWords}
EntryOf(name) == colorWords[CHOOSE i \in DOMAIN colorWords : colorWords[i].name = name]

\* The all-lower-case property names a table written as an object literal
\* inherits from Object.prototype: colorWords[key] is an object or function
\* for them, and its hex is undefined.
InheritedKeys == {"constructor", "__proto__"}

findColorByWord(word) ==
  LET normalizedWord == trim(toLowerCase(word))
      matches == {i \in DOMAIN colorWords : normalizedWord \in Range(colorWords[i].variants)}
  IN IF normalizedWord \in CanonicalNames THEN Str(EntryOf(normalizedWord).hex)
     ELSE IF normalizedWord \in InheritedKeys THEN Undefined
     ELSE IF matches # {}
          THEN Str(colorWords[CHOOSE i \in matches : \A j \in matches : i <= j].hex)
     ELSE NullV

(***************************************************************************)
(* Words looked up: every canonical name and every variant of the table,   *)
(* names in other cases and with surrounding blanks, and words the table   *)
(* does not list.                                                          *)
(***************************************************************************)
AllVariants == UNION {Range(colorWords[i].variants) : i \in DOMAIN colorWords}
Words ==
  CanonicalNames \cup AllVariants
    \cup {"RED", "Red", " red ", "  NAVY", "Navy ", "WHITE", "Ruby", " Indigo",
          "notacolor", "", " ", "re d", "#FF0000", "constructor", "__proto__",
          "Constructor ", "toString", "hex"}

InitWords ==
  /\ base \in Words
  /\ result = Undefined
  /\ pc = "call"
  /\ heap = <<>>
  /\ before = <<>>
  /\ override = Undefined
  /\ themeName = "nord"
  /\ systemTheme = "light"
  /\ activeTheme = Undefined
  /\ context = Undefined
  /\ renders = 0
  /\ enclosing = NullV
  /\ NoAsync

FindColorByWord ==
  /\ pc = "call"
  /\ result' = findColorByWord(base)
  /\ pc' = "findColorByWord"
  /\ UNCHANGED <<heap, before, base, override, provider>>

NextWords == FindColorByWord

SpecWords == InitWords /\ [][NextWords]_vars

\* The claimed lookup, on a word already lower-cased and trimmed
isCanonical(w) == \E i \in DOMAIN colorWords : colorWords[i].name = w
isVariant(w) == \E i \in DOMAIN colorWords : \E k \in DOMAIN colorWords[i].variants :
                  colorWords[i].variants[k] = w
FirstWithVariant(w) ==
  CHOOSE i \in DOMAIN colorWords :
    /\ w \in Range(colorWords[i].variants)
    /\ \A j \in 1..(i - 1) : w \notin Range(colorWords[j].variants)
ClaimedHex(w) ==
  IF isCanonical(w) THEN Str(EntryOf(w).hex)
  ELSE IF isVariant(w) THEN Str(colorWords[FirstWithVariant(w)].hex)
  ELSE NullV

\* C14: findColorByWord(word), with word lower-cased and trimmed, gives the
\* hex of the canonical entry of that name when there is one, otherwise the
\* hex of the first entry in insertion order whose variants list the word,
\* otherwise null.
C14_LookupOrder ==
  pc = "findColorByWord" => result = ClaimedHex(trim(toLowerCase(base)))

\* C15: no word listed in an entry's variants is a canonical key of the
\* table: a looked-up word that is a variant is never a canonical name.
C15_VariantsDisjointFromKeys ==
  pc = "findColorByWord" =>
    ~(isVariant(trim(toLowerCase(base))) /\ isCanonical(trim(toLowerCase(base))))

(***************************************************************************)
(* generators/themeGenerator.ts.  An options record holds a value for each *)
(* of baseColor, accentColor, neutralColor and isDark, undefined when the  *)
(* caller left it out.  A call gives [raised |-> TRUE, message] when it    *)
(* throws and [raised |-> FALSE, theme] when it returns.                   *)
(***************************************************************************)
resolveColor(input) ==
  LET wordColor == findColorByWord(input)
  IN IF startsWith(input, "#") THEN [raised |-> FALSE, value |-> input]
     ELSE IF ~Truthy(wordColor)
          THEN [raised |-> TRUE, message |-> "Unable to resolve color: " \o input]
     ELSE [raised |-> FALSE, value |-> wordColor.s]

\* hslToHex({ ...hsl, h: (hsl.h + 180) % 360 }): the hue is below 360
complementOf(hsl, turned) ==
  hslToHex([h |-> IF FLess(turned, Whole(360)) THEN turned ELSE FSub(turned, Whole(360)),
            s |-> hsl.s,
            l |-> hsl.l])

turnedHue(hsl) == complementOf(hsl, FAdd(hsl.h, Whole(180)))

generateComplementary(hex) == turnedHue(rgbToHsl(hexToRgb(hex)))

\* Mutant: the light shade whatever isDark is.
byMode_lightOnly(isDark, dark, light) == light

\* options.isDark ? dark : light
byMode(isDark, dark, light) == IF Truthy(isDark) THEN dark ELSE light

\* the theme returned, from the three colour depths
themeOf(options, primaryDepth, accentDepth, neutralDepth) ==
  [primary |-> primaryDepth,
   accent |-> accentDepth,
   neutral |-> neutralDepth,
   semantic |-> [success |-> generateSemanticColor("#00C853"),
                 warning |-> generateSemanticColor("#FFD600"),
                 error |-> generateSemanticColor("#FF1744"),
                 info |-> generateSemanticColor("#2196F3")],
   background |-> [default |-> byMode(options.isDark, neutralDepth[900], neutralDepth[50]),
                   paper |-> byMode(options.isDark, neutralDepth[800], neutralDepth[100]),
                   elevated |-> byMode(options.isDark, neutralDepth[700], neutralDepth[200])],
   text |-> [primary |-> byMode(options.isDark, neutralDepth[50], neutralDepth[900]),
             secondary |-> byMode(options.isDark, neutralDepth[100], neutralDepth[800]),
             disabled |-> byMode(options.isDark, neutralDepth[200], neutralDepth[700]),
             inverse |-> byMode(options.isDark, neutralDepth[900], neutralDepth[50])]]

\* generateTheme once its three colours are resolved: the first that raised,
\* in the order base, accent, neutral, ends the call.
generateFrom(options, color, accent, neutral) ==
  IF color.raised THEN color
  ELSE IF accent.raised THEN accent
  ELSE IF neutral.raised THEN neutral
  ELSE [raised |-> FALSE,
        theme |-> themeOf(options, generateColorDepth(color.value),
                          generateColorDepth(accent.value),
                          generateColorDepth(neutral.value))]

\* generateTheme once its base colour is resolved
resolveRest(options, color) ==
  generateFrom(options, color,
               resolveColor(IF Truthy(options.accentColor) THEN options.accentColor.s
                            ELSE generateComplementary(color.value)),
               resolveColor(IF Truthy(options.neutralColor) THEN options.neutralColor.s
                            ELSE "#808080"))

generateTheme(options) == resolveRest(options, resolveColor(options.baseColor.s))

(***************************************************************************)
(* Options handed to generateTheme: hex colours, dictionary words in any   *)
(* case, words the dictionary does not list, and strings that start with   *)
(* '#' without being a 6-digit hex colour.                                 *)
(***************************************************************************)
BaseColorInputs ==
  {"#007AFF", "#5E81AC", "blue", "Navy ", "RED", "indigo", "#GGGGGG", "#12",
   "#fff", "#", "notacolor", "", "constructor", "007AFF", " #007AFF"}
AccentColorInputs ==
  {Undefined, Str(""), Str("#FF9500"), Str("orange"), Str("#xyz"), Str("nope")}
NeutralColorInputs ==
  {Undefined, Str("gray"), Str("#808080"), Str("#zz"), Str("unknown")}
DarkFlags == {Undefined, Bool(TRUE), Bool(FALSE)}
\* every base colour with the other colours left out, and every accent and
\* neutral colour with the base colour of the doc comment
ThemeOptions ==
  {o \in [baseColor : {Str(c) : c \in BaseColorInputs}, accentColor : AccentColorInputs,
          neutralColor : NeutralColorInputs, isDark : DarkFlags] :
     \/ o.baseColor = Str("#007AFF")
     \/ o.accentColor = Undefined /\ o.neutralColor = Undefined}

InitTheme ==
  /\ base \in ThemeOptions
  /\ result = Undefined
  /\ pc = "call"
  /\ heap = <<>>
  /\ before = <<>>
  /\ override = Undefined
  /\ themeName = "nord"
  /\ systemTheme = "light"
  /\ activeTheme = Undefined
  /\ context = Undefined
  /\ renders = 0
  /\ enclosing = NullV
  /\ NoAsync

GenerateTheme ==
  /\ pc = "call"
  /\ result' = generateTheme(base)
  /\ pc' = "generateTheme"
  /\ UNCHANGED <<heap, before, base, override, provider>>

NextTheme == GenerateTheme

SpecTheme == InitTheme /\ [][NextTheme]_vars

\* The colours an options record gives, and what the claims call them
GivenColors(options) ==
  {options[k].s : k \in {k \in {"baseColor", "accentColor", "neutralColor"} :
                          options[k].t = "str"}}
isDictionaryWord(str) == isCanonical(trim(toLowerCase(str))) \/ isVariant(trim(toLowerCase(str)))
isValidColorInput(str) == (matchesHex(str) /\ Len(str) = 7) \/ isDictionaryWord(str)
isResolvable(str) == startsWith(str, "#") \/ isDictionaryWord(str)
Resolved(str) == IF startsWith(str, "#") THEN str ELSE ClaimedHex(trim(toLowerCase(str))).s

\* C11: generateTheme raises whenever a colour it is given is not a valid
\* colour (neither a 6-digit hex string nor a dictionary word), strings that
\* start with '#' without being valid hex included; it returns no theme
\* computed from such a colour.
C11_GenerationFailsFast ==
  pc = "generateTheme" =>
    ((\E c \in GivenColors(base) : ~isValidColorInput(c)) => result.raised)

\* C12: generateTheme raises 'Unable to resolve color' whenever a given
\* colour is a string that does not start with '#' and is no dictionary
\* word; otherwise it returns a theme whose primary, accent and neutral
\* palettes have the resolved colour at shade 500.
C12_UnresolvableRaises ==
  pc = "generateTheme" =>
    IF \E c \in GivenColors(base) : ~isResolvable(c)
    THEN result.raised /\ startsWith(result.message, "Unable to resolve color")
    ELSE /\ ~result.raised
         /\ result.theme.primary[500] = Resolved(base.baseColor.s)
         /\ base.accentColor.t = "str" =>
              result.theme.accent[500] = Resolved(base.accentColor.s)
         /\ base.neutralColor.t = "str" =>
              result.theme.neutral[500] = Resolved(base.neutralColor.s)

\* C13: a returned theme takes its background and text roles from the
\* neutral palette by isDark alone (50/100/200 and 900/800/700/50 when isDark
\* is false or absent, 900/800/700 and 50/100/200/900 when it is true), and
\* its four semantic roles are the same whatever the options.
SemanticRoles ==
  [success |-> generateSemanticColor("#00C853"),
   warning |-> generateSemanticColor("#FFD600"),
   error |-> generateSemanticColor("#FF1744"),
   info |-> generateSemanticColor("#2196F3")]

hexToHSL(hex) == rgbToHsl(hexToRGB(hex))
ColorUtils_hslToHex(hsl) == hslToHex(hsl)

adjustContrast(color, background, increase) ==
  LET hsl == hexToHSL(color)
      adjustment == IF increase THEN Whole(5) ELSE Whole(-5)
  IN ColorUtils_hslToHex([hsl EXCEPT !.l = FMax(Whole(0), FMin(Whole(100), FAdd(hsl.l, adjustment)))])

(***************************************************************************)
(* Calls of ensureContrast: 6-digit hex colours, and colours in the other  *)
(* syntaxes a theme may hold, against dark, light and middle backgrounds.  *)
(***************************************************************************)
ContrastColors ==
  {"#5E81AC", "#000000", "#767676", "#FF0000", "#FFFFFF", "#2E3440", "#88C0D0",
   "#000", "#fff", "rgb(0, 0, 0)"}
ContrastBackgrounds == {"#FFFFFF", "#000000", "#2E3440", "#ECEFF4", "#808080"}
MinRatios == {<<9, 2>>, <<7, 1>>, <<3, 1>>}

InitContrast ==
  /\ base \in [color : ContrastColors, background : ContrastBackgrounds, minRatio : MinRatios]
  /\ result = Undefined
  /\ pc = "call"
  /\ heap = <<>>
  /\ before = <<>>
  /\ override = Undefined
  /\ themeName = "nord"
  /\ systemTheme = "light"
  /\ activeTheme = Undefined
  /\ context = Undefined
  /\ renders = 0
  /\ enclosing = NullV
  /\ NoAsync

\* ratio < minRatio, for the ratio of current against the background
BelowMinRatio(current) ==
  ratioBelow(getContrastRatio(current, base.background), base.minRatio[1], base.minRatio[2])

\* let current = color; let ratio = getContrastRatio(current, background)
EnsureContrast ==
  /\ pc = "call"
  /\ result' = base.color
  /\ pc' = "while"
  /\ UNCHANGED <<heap, before, base, override, provider>>

\* one iteration of while (ratio < minRatio)
AdjustContrast ==
  /\ pc = "while"
  /\ BelowMinRatio(result)
  /\ result' = adjustContrast(result, base.background, BelowMinRatio(result))
  /\ UNCHANGED <<pc, heap, before, base, override, provider>>

\* return current
ReturnCurrent ==
  /\ pc = "while"
  /\ ~BelowMinRatio(result)
  /\ pc' = "return"
  /\ UNCHANGED <<result, heap, before, base, override, provider>>

NextContrast == EnsureContrast \/ AdjustContrast \/ ReturnCurrent

SpecContrast == InitContrast /\ [][NextContrast]_vars

\* One step of d points of HSL lightness, clamped to [0,100], and the
\* colours that up to k such steps lead to
LightnessStep(hex, d) ==
  LET hsl == hexToHSL(hex)
  IN ColorUtils_hslToHex([h |-> hsl.h, s |-> hsl.s,
                          l |-> FMax(Whole(0), FMin(Whole(100), FAdd(hsl.l, Whole(d))))])
MaxSteps == 20
RECURSIVE StepsFrom(_, _, _)
StepsFrom(hex, d, k) ==
  IF k = 0 THEN {}
  ELSE {LightnessStep(hex, d)} \cup StepsFrom(LightnessStep(hex, d), d, k - 1)
MeetsMinRatio(color) ==
  LET ratio == getContrastRatio(color, base.background)
  IN ~ratio.nan /\ ~ratioBelow(ratio, base.minRatio[1], base.minRatio[2])

\* C16: when ensureContrast returns, the contrast ratio of the result
\* against the background is at least minRatio; the result is the input
\* colour when that already meets minRatio, and otherwise differs from it by
\* whole steps of 5 points of HSL lightness, clamped to [0,100].
C16_ReturnedColorMeetsRatio ==
  pc = "return" =>
    /\ MeetsMinRatio(result)
    /\ IF MeetsMinRatio(base.color) THEN result = base.color
       ELSE result \in StepsFrom(base.color, 5, MaxSteps) \cup StepsFrom(base.color, -5, MaxSteps)

(***************************************************************************)
(* Nested overrides (components/ThemeOverride.tsx).                        *)
(***************************************************************************)
\* The value of mergeTheme(b, o) for two values, computed in a heap of its own
MergedValue(b, o) ==
  LET rb == Alloc(<<>>, b)
      ro == Alloc(rb.heap, o)
      merged == mergeTheme(ro.heap, rb.val, ro.val)
  IN Deep(merged.heap, merged.ret)

\* C18: the theme a ThemeOverride nested in another one provides equals
\* mergeTheme(theme the enclosing ThemeOverride provides, own override);
\* useOverriddenTheme gives the theme of the enclosing ThemeOverride, and
\* the global theme outside any ThemeOverride.
C18_NestedOverrideMergesWithParent ==
  /\ pc = "ThemeOverride" /\ enclosing # NullV =>
       Deep(heap, context) = MergedValue(Deep(before, enclosing), Deep(before, override))
  /\ pc = "useOverriddenTheme" =>
       result = IF enclosing = NullV THEN activeTheme ELSE enclosing

C18_Witness ==
  /\ pc = "ThemeOverride"
  /\ enclosing # NullV
  /\ Deep(before, override) = Obj([colors |-> Obj([primary |-> Str("#FF0000")])])
  /\ Deep(before, enclosing).f.colors.f.primary = Str("#0066CC")
  /\ Deep(heap, context).f.spacing = Obj([md |-> Num(20)])
  /\ Deep(heap, context).f.colors.f.primary = Str("#FF0000")
  /\ Deep(heap, context).f.colors.f.background = Str("#F5F5F5")

(***************************************************************************)
(* hooks/useTheme.ts: setTheme and loadStoredTheme of ThemeProvider.       *)
(*                                                                         *)
(* A setTheme call runs up to its first await and is resumed later, so it  *)
(* is one action for each stretch between two awaits.  On the web the      *)
(* stretches are resumed in the order the calls were made (nothing is      *)
(* awaited but the call of handleThemeChange itself) and the write to      *)
(* localStorage is synchronous.  Elsewhere the call awaits the transition  *)
(* and then AsyncStorage.setItem: the write is done by the storage at some *)
(* time after it was asked for, and the call resumes at some time after    *)
(* that; the code does nothing to order the calls that overlap.  A state   *)
(* change is modelled with the render that follows it (activeTheme).       *)
(***************************************************************************)
MaxCalls == 2
CallIds == 1..MaxCalls
Platforms == {"web", "native"}
\* what the store holds under storageKey when the provider mounts
StoredValues == {NullV, Str("nord"), Str("accessible"), Str("system"), Str("midnight")}

isValidTheme(name) == name = "system" \/ name \in DOMAIN themes

\* the defaultTheme prop: 'system' when the caller leaves it out
DefaultThemes == {"system", "nord"}

\* base holds the defaultTheme prop of the provider
InitProvider ==
  \E system \in SystemThemes, defaultTheme \in DefaultThemes :
    LET r == activeThemeMemo(RegistryHeap, defaultTheme, system)
    IN /\ heap = r.heap
       /\ activeTheme = r.val
       /\ themeName = defaultTheme
       /\ systemTheme = system
       /\ context = NullV
       /\ renders = 0
       /\ enclosing = NullV
       /\ base = Str(defaultTheme)
       /\ override = Undefined
       /\ result = Undefined
       /\ before = <<>>
       /\ pc = "mounted"
       /\ isTransitioning = FALSE
       /\ storage \in StoredValues
       /\ calls = [c \in CallIds |-> [pc |-> "idle", name |-> "", promise |-> "none"]]
       /\ stored = [pc |-> "effect", value |-> NullV]
       /\ platform \in Platforms

\* setThemeName(name) and the render that follows: useMemo computes
\* activeTheme again when themeName changed.
setThemeName(name) ==
  /\ themeName' = name
  /\ IF name = themeName THEN UNCHANGED <<heap, activeTheme>>
     ELSE LET r == activeThemeMemo(heap, name, systemTheme)
          IN heap' = r.heap /\ activeTheme' = r.val

Untouched == <<base, override, result, before, systemTheme, context, renders, enclosing, platform>>

\* setTheme(name) up to await handleThemeChange(); calls are numbered in
\* the order they are made.
setTheme(c, name) ==
  /\ calls[c].pc = "idle"
  /\ \A d \in CallIds : d < c => calls[d].pc # "idle"
  /\ isTransitioning' = TRUE
  /\ calls' = [calls EXCEPT ![c] = [pc |-> "handleThemeChange", name |-> name,
                                    promise |-> "pending"]]
  /\ pc' = "setTheme"
  /\ UNCHANGED <<heap, activeTheme, themeName, storage, stored, Untouched>>

\* On the web the call that awaits handleThemeChange() the longest resumes
\* first.
Resumable(c) ==
  /\ calls[c].pc = "handleThemeChange"
  /\ platform = "web" => \A d \in CallIds : d < c => calls[d].pc # "handleThemeChange"

\* web: localStorage.setItem(storageKey, name); setThemeName(name);
\* setIsTransitioning(false)
localStorageSetItem(c) ==
  /\ platform = "web"
  /\ Resumable(c)
  /\ storage' = Str(calls[c].name)
  /\ setThemeName(calls[c].name)
  /\ isTransitioning' = FALSE
  /\ calls' = [calls EXCEPT ![c].pc = "done", ![c].promise = "resolved"]
  /\ pc' = "localStorageSetItem"
  /\ UNCHANGED <<stored, Untouched>>

\* Mutant: the catch block does not reset isTransitioning.
setItemThrows_keepsTransitioning(c) ==
  /\ calls[c].pc = "setItem" \/ (platform = "web" /\ Resumable(c))
  /\ calls' = [calls EXCEPT ![c].pc = "failed", ![c].promise = "resolved"]
  /\ pc' = "setItemThrows"
  /\ UNCHANGED <<isTransitioning, heap, activeTheme, themeName, storage, stored, Untouched>>

\* The write throws (localStorage) or is rejected (AsyncStorage): the catch
\* block warns and calls setIsTransitioning(false); the promise of the call
\* is resolved.
setItemThrows(c) ==
  /\ calls[c].pc = "setItem" \/ (platform = "web" /\ Resumable(c))
  /\ isTransitioning' = FALSE
  /\ calls' = [calls EXCEPT ![c].pc = "failed", ![c].promise = "resolved"]
  /\ pc' = "setItemThrows"
  /\ UNCHANGED <<heap, activeTheme, themeName, storage, stored, Untouched>>

\* elsewhere: the transition is over, AsyncStorage.setItem(storageKey, name)
\* is called and awaited
AsyncStorageSetItem(c) ==
  /\ platform = "native"
  /\ Resumable(c)
  /\ calls' = [calls EXCEPT ![c].pc = "setItem"]
  /\ pc' = "AsyncStorageSetItem"
  /\ UNCHANGED <<isTransitioning, heap, activeTheme, themeName, storage, stored, Untouched>>

\* the storage does the write
AsyncStorageWrites(c) ==
  /\ calls[c].pc = "setItem"
  /\ storage' = Str(calls[c].name)
  /\ calls' = [calls EXCEPT ![c].pc = "written"]
  /\ pc' = "AsyncStorageWrites"
  /\ UNCHANGED <<isTransitioning, heap, activeTheme, themeName, stored, Untouched>>

\* the call resumes after await AsyncStorage.setItem: setThemeName(name);
\* setIsTransitioning(false)
setItemResolved(c) ==
  /\ calls[c].pc = "written"
  /\ setThemeName(calls[c].name)
  /\ isTransitioning' = FALSE
  /\ calls' = [calls EXCEPT ![c].pc = "done", ![c].promise = "resolved"]
  /\ pc' = "setItemResolved"
  /\ UNCHANGED <<storage, stored, Untouched>>

\* Mutant: any stored string is taken as the preference.
useStored_anyString(value) ==
  IF Truthy(value) THEN setThemeName(value.s)
  ELSE UNCHANGED <<heap, activeTheme, themeName>>

\* if (stored && isValidTheme(stored)) setThemeName(stored)
useStored(value) ==
  IF Truthy(value) /\ isValidTheme(value.s) THEN setThemeName(value.s)
  ELSE UNCHANGED <<heap, activeTheme, themeName>>

\* loadStoredTheme on the web: localStorage.getItem is synchronous
loadStoredTheme ==
  /\ platform = "web"
  /\ stored.pc = "effect"
  /\ stored' = [pc |-> "done", value |-> storage]
  /\ useStored(storage)
  /\ pc' = "loadStoredTheme"
  /\ UNCHANGED <<isTransitioning, storage, calls, Untouched>>

\* loadStoredTheme elsewhere: the storage reads the value for getItem
AsyncStorageGetItem ==
  /\ platform = "native"
  /\ stored.pc = "effect"
  /\ stored' = [pc |-> "getItem", value |-> storage]
  /\ pc' = "AsyncStorageGetItem"
  /\ UNCHANGED <<isTransitioning, heap, activeTheme, themeName, storage, calls, Untouched>>

\* loadStoredTheme resumes after await AsyncStorage.getItem
getItemResolved ==
  /\ stored.pc = "getItem"
  /\ stored' = [stored EXCEPT !.pc = "done"]
  /\ useStored(stored.value)
  /\ pc' = "getItemResolved"
  /\ UNCHANGED <<isTransitioning, storage, calls, Untouched>>

\* reading the store throws or is rejected: the catch block only warns
getItemThrows ==
  /\ stored.pc \in {"effect", "getItem"}
  /\ stored' = [pc |-> "done", value |-> NullV]
  /\ pc' = "getItemThrows"
  /\ UNCHANGED <<isTransitioning, heap, activeTheme, themeName, storage, calls, Untouched>>

NextProvider ==
  \/ \E c \in CallIds, name \in ThemePreferences : setTheme(c, name)
  \/ \E c \in CallIds : localStorageSetItem(c)
  \/ \E c \in CallIds : setItemThrows(c)
  \/ \E c \in CallIds : AsyncStorageSetItem(c)
  \/ \E c \in CallIds : AsyncStorageWrites(c)
  \/ \E c \in CallIds : setItemResolved(c)
  \/ loadStoredTheme
  \/ AsyncStorageGetItem
  \/ getItemResolved
  \/ getItemThrows

SpecProvider == InitProvider /\ [][NextProvider]_vars

\* A setTheme call that has started and not finished, one that succeeded
InProgress(c) == calls[c].pc \in {"handleThemeChange", "setItem", "written"}
Succeeded(c) == calls[c].pc = "done"

\* C17: isTransitioning is true exactly when some setTheme call has started
\* and not yet finished, overlapping calls included.
C17_TransitioningIffCallInProgress ==
  isTransitioning <=> \E c \in CallIds : InProgress(c)

\* C19: when no setTheme call is in progress and at least one has succeeded,
\* the value stored under storageKey is themeName.
C19_StoreHoldsThemeName ==
  (/\ \A c \in CallIds : ~InProgress(c)
   /\ \E c \in CallIds : Succeeded(c))
    => storage = Str(themeName)

\* C20: the step in which the write of a setTheme call fails leaves
\* themeName and the active theme as they were, sets isTransitioning to
\* false and resolves the promise of the call; the step in which a call
\* sets themeName to its name comes after its write (the store holds the
\* name it wrote, or a later write), and no other step of a call changes
\* themeName.
Fails(c) == calls[c].pc # "failed" /\ calls'[c].pc = "failed"
Finishes(c) == calls[c].pc # "done" /\ calls'[c].pc = "done"
C20_FailedWriteKeepsTheme ==
  [][\A c \in CallIds :
       /\ Fails(c) => /\ themeName' = themeName
                      /\ activeTheme' = activeTheme
                      /\ Deep(heap', activeTheme') = Deep(heap, activeTheme)
                      /\ isTransitioning' = FALSE
                      /\ calls'[c].promise = "resolved"
       /\ Finishes(c) => /\ themeName' = calls[c].name
                         /\ calls[c].pc = "written" \/ storage' = Str(calls[c].name)
       /\ calls'[c] # calls[c] /\ ~Finishes(c) => themeName' = themeName]_vars

C20_Witness ==
  /\ \E c \in CallIds : /\ calls[c].pc = "failed"
                        /\ calls[c].promise = "resolved"
                        /\ calls[c].name = "accessible"
  /\ pc = "setItemThrows"
  /\ themeName = "system"
  /\ isTransitioning = FALSE
  /\ Deep(heap, activeTheme) = ThemeDefinition("system", systemTheme)

\* The step in which loadStoredTheme ends, the value it read (null when the
\* read failed), and the preferences the registry knows
LoadEnds == stored.pc # "done" /\ stored'.pc = "done"
ValidPreferences == {Str("system"), Str("nord"), Str("accessible")}
NoCallMade == \A c \in CallIds : calls[c].pc = "idle"

\* C21: the step that ends the load of the stored preference sets themeName
\* to the value read when that is 'system' or a registered theme name, and
\* otherwise (no value, another string, a failed read) leaves themeName as
\* it was; while no setTheme call was made, themeName is the stored
\* preference or defaultTheme; the load never ends in a rejection.
C21_StoredPreferenceOnMount ==
  [][/\ LoadEnds =>
          /\ stored'.value \in ValidPreferences => themeName' = stored'.value.s
          /\ stored'.value \notin ValidPreferences => themeName' = themeName
          /\ pc' \in {"loadStoredTheme", "getItemResolved", "getItemThrows"}
     /\ NoCallMade' =>
          themeName' = IF stored'.pc = "done" /\ stored'.value \in ValidPreferences
                       THEN stored'.value.s ELSE base.s]_vars

C21_Witness ==
  /\ pc \in {"loadStoredTheme", "getItemResolved"}
  /\ stored = [pc |-> "done", value |-> Str("accessible")]
  /\ NoCallMade
  /\ base = Str("system")
  /\ themeName = "accessible"
  /\ Deep(heap, activeTheme) = ThemeDefinition("accessible", systemTheme)

\* C22: a step changes systemTheme only as a system-theme notification, and
\* such a step leaves themeName and the persisted preference as they were;
\* while themeName is 'system' it hands consumers a new theme object, the
\* nord theme object's properties with colorMode equal to the new
\* systemTheme, and otherwise the active theme stays the registry's theme
\* object for themeName; a step that changes neither themeName nor
\* systemTheme hands consumers the same theme object.
C22_SystemChangeIsFramed ==
  [][/\ systemTheme' # systemTheme =>
          /\ pc' = "handleSystemThemeChange"
          /\ themeName' = themeName
          /\ storage' = storage
          /\ IF themeName = "system"
             THEN /\ activeTheme' # activeTheme
                  /\ heap'[activeTheme'.a] =
                       ("colorMode" :> Str(systemTheme')) @@ heap'[getTheme("nord").a]
             ELSE /\ activeTheme' = activeTheme
                  /\ activeTheme' = getTheme(themeName)
                  /\ Deep(heap', activeTheme') = Deep(heap, activeTheme)
     /\ (systemTheme' = systemTheme /\ themeName' = themeName) =>
          activeTheme' = activeTheme]_vars

C22_Witness ==
  /\ pc = "handleSystemThemeChange"
  /\ themeName = "system"
  /\ systemTheme = "dark"
  /\ heap[activeTheme.a].colorMode = Str("dark")
  /\ heap[activeTheme.a].colors = heap[getTheme("nord").a].colors
  /\ storage = NullV

(***************************************************************************)
(* Termination of ensureContrast.  The loop is deterministic and its only  *)
(* state is current: an iteration that leaves current as it was, while     *)
(* ratio < minRatio, is followed by the same iteration for ever.  Lightness*)
(* only moves up to its clamp, so a call that does not return is a call    *)
(* that reaches such an iteration.                                         *)
(***************************************************************************)
\* minRatio is met by the colour's hue and saturation at some lightness
AtLightness(l) == ColorUtils_hslToHex([hexToHSL(base.color) EXCEPT !.l = Whole(l)])
ReachableBySomeLightness ==
  \/ MeetsMinRatio(AtLightness(0))
  \/ MeetsMinRatio(AtLightness(100))
  \/ \E l \in 1..99 : MeetsMinRatio(AtLightness(l))

\* the next iteration of the loop changes current
IterationMoves == adjustContrast(result, base.background, BelowMinRatio(result)) # result

\* C23: a call of ensureContrast on two 6-digit hex colours, with minRatio
\* 4.5 or a minRatio met by the colour's hue and saturation at some
\* lightness, terminates: it never comes to an iteration of the loop that
\* leaves current unchanged.
C23_EnsureContrastTerminates ==
  (/\ pc = "while"
   /\ isHexColor6(Str(base.color))
   /\ isHexColor6(Str(base.background))
   /\ BelowMinRatio(result)
   /\ base.minRatio = <<9, 2>> \/ ReachableBySomeLightness)
    => IterationMoves

\* C24: every leaf of the override holds the override's value in the
\* result, also under a key where the base holds a string, an array or null
\* and the override a plain object.
RECURSIVE LeavesWin(_, _)
LeavesWin(ov, rv) ==
  IF ov.t = "obj"
  THEN /\ rv.t = "obj"
       /\ \A k \in DOMAIN ov.f : k \in DOMAIN rv.f /\ LeavesWin(ov.f[k], rv.f[k])
  ELSE rv = ov

C24_OverrideLeavesWin ==
  pc = "done" => LeavesWin(OverrideBefore, Merged)

\* C25: when validateOverride returns isValid and both colours of one of the
\* nine pairs are present, the ratio getContrastRatio computes for the pair
\* is a number and is at least 4.5, whichever accepted syntax the colours
\* are written in.
PairRatio(colors, pair) ==
  getContrastRatio(Property(colors, pair[1]).s, Property(colors, pair[2]).s)
PairPresent(colors, pair) ==
  Truthy(Property(colors, pair[1])) /\ Truthy(Property(colors, pair[2]))

C25_ValidIsAccessible ==
  (Returned /\ result.isValid /\ Truthy(ColorsOf(override))) =>
    \A i \in DOMAIN ContrastPairs :
      PairPresent(ColorsOf(override), ContrastPairs[i]) =>
        /\ ~PairRatio(ColorsOf(override), ContrastPairs[i]).nan
        /\ ~ratioBelow(PairRatio(ColorsOf(override), ContrastPairs[i]),
                       MinContrastAA[1], MinContrastAA[2])

\* A step in which setTheme call c completes successfully
Completes(c) == calls[c].pc # "done" /\ calls'[c].pc = "done"

\* C26: the step that completes a setTheme(name) call leaves themeName equal
\* to name, and once a call has completed themeName changes only in a step
\* that completes a setTheme call: the load of the stored preference does
\* not write over it.
C26_SelectedThemeStays ==
  [][/\ \A c \in CallIds : Completes(c) => themeName' = calls'[c].name
     /\ ((\E c \in CallIds : Succeeded(c)) /\ ~(\E c \in CallIds : Completes(c)))
          => themeName' = themeName]_vars

(***************************************************************************)
(* utils/colorValidation.ts.  A ColorWord is a record of hex, category and *)
(* variants, the last an array of strings or Undefined when left out.       *)
(* Both validators read the module-level colorWords table.                 *)
(***************************************************************************)
isValidHex(hex) == matchesHex(hex)

\* /^[a-z]+$/.test(name)
isLowerCaseWord(name) ==
  /\ name # ""
  /\ \A i \in 1..Len(name) :
       \E k \in 1..Len(LowerCase) : SubSeq(LowerCase, k, k) = SubSeq(name, i, i)

\* name in colorWords: own keys and the properties of Object.prototype
ObjectPrototypeKeys ==
  InheritedKeys \cup {"toString", "valueOf", "hasOwnProperty", "isPrototypeOf",
                      "propertyIsEnumerable", "toLocaleString"}
inColorWords(name) == name \in CanonicalNames \cup ObjectPrototypeKeys

validCategories == {"primary", "neutral", "accent", "semantic"}

\* Array.prototype.join(", ") and the two filters over color.variants
RECURSIVE joinComma(_)
joinComma(list) ==
  IF list = <<>> THEN ""
  ELSE IF Len(list) = 1 THEN list[1]
  ELSE list[1] \o ", " \o joinComma(Tail(list))
duplicatesOf(variants) ==
  LET positions == {i \in DOMAIN variants : \E j \in 1..(i - 1) : variants[j] = variants[i]}
  IN SelectSeq([i \in DOMAIN variants |-> [index |-> i, variant |-> variants[i]]],
               LAMBDA e : e.index \in positions)
collisionsOf(variants) ==
  SelectSeq(variants, LAMBDA variant : toLowerCase(variant) \in CanonicalNames)
variantsOf(entries) == [i \in DOMAIN entries |-> entries[i].variant]

\* the errors of the variants part: if (color.variants) { ... }
variantErrors(variants, collisions) ==
  (IF duplicatesOf(variants) = <<>> THEN <<>>
   ELSE <<"Duplicate variants found: " \o joinComma(variantsOf(duplicatesOf(variants)))>>)
  \o (IF collisions = <<>> THEN <<>>
      ELSE <<"Variants collide with existing color names: " \o joinComma(collisions)>>)

\* the errors of validateColorWord(color)
validateColorWord(color) ==
  (IF isValidHex(color.hex) THEN <<>> ELSE <<"Invalid hex value: " \o color.hex>>)
  \o (IF color.category \in validCategories THEN <<>>
      ELSE <<"Invalid category: " \o color.category>>)
  \o (IF color.variants.t = "arr"
      THEN variantErrors(color.variants.e, collisionsOf(color.variants.e))
      ELSE <<>>)

newColorErrors(name, wordErrors) ==
  (IF isLowerCaseWord(name) THEN <<>>
   ELSE <<"Color name must contain only lowercase letters">>)
  \o (IF inColorWords(name) THEN <<"Color name \"" \o name \o "\" already exists">>
      ELSE <<>>)
  \o wordErrors

validationResult(errors) == [isValid |-> Len(errors) = 0, errors |-> errors]

validateNewColor(name, color) == validationResult(newColorErrors(name, validateColorWord(color)))

(***************************************************************************)
(* Calls of validateNewColor: names that are new, taken, variants of an    *)
(* entry, malformed or inherited; entries with hex values, categories and  *)
(* variant lists that pass and that fail each check.                       *)
(***************************************************************************)
NewColorNames ==
  {"lilac", "navy", "crimson", "teal", "red", "Lilac", "lilac2", "", "constructor",
   "li lac"}
NewColorHexes == {"#C8A2C8", "#abc", "C8A2C8"}
NewColorCategories == {"accent", "pastel"}
NewColorVariants ==
  {Undefined, Arr(<<>>), Arr(<<"lilac">>), Arr(<<"mauve">>), Arr(<<"Red">>),
   Arr(<<"thistle", "thistle">>), Arr(<<"thistle", "lilac">>),
   Arr(<<"blue", "thistle">>), Arr(<<"thistle", "heather">>)}

InitNewColor ==
  /\ base \in NewColorNames
  /\ override \in [hex : NewColorHexes, category : NewColorCategories,
                   variants : NewColorVariants]
  /\ result = Undefined
  /\ pc = "call"
  /\ heap = <<>>
  /\ before = <<>>
  /\ themeName = "nord"
  /\ systemTheme = "light"
  /\ activeTheme = Undefined
  /\ context = Undefined
  /\ renders = 0
  /\ enclosing = NullV
  /\ NoAsync

ValidateNewColor ==
  /\ pc = "call"
  /\ result' = validateNewColor(base, override)
  /\ pc' = "validateNewColor"
  /\ UNCHANGED <<heap, before, base, override, provider>>

NextNewColor == ValidateNewColor

SpecNewColor == InitNewColor /\ [][NextNewColor]_vars

\* The variants of the entry handed in
NewVariants == IF override.variants.t = "arr" THEN Range(override.variants.e) ELSE {}

\* C27: adding a (name, color) that validateNewColor returns isValid for
\* puts no variant on a canonical key: name is not a variant of an entry of
\* the table, and no variant of the new entry is name or a key of the table.
C27_NewColorKeepsVariantsOffKeys ==
  (pc = "validateNewColor" /\ result.isValid) =>
    /\ base \notin AllVariants
    /\ \A v \in NewVariants : v # base /\ v \notin CanonicalNames

(***************************************************************************)
(* utils/colorWordUtils.ts: findBaseColor lower-cases the word, without    *)
(* trimming it, and returns the name of the first entry in insertion order *)
(* whose variants list it.                                                 *)
(***************************************************************************)
entriesWithVariant(normalized) ==
  {i \in DOMAIN colorWords : normalized \in Range(colorWords[i].variants)}
firstOf(matches) == CHOOSE i \in matches : \A j \in matches : i <= j

findBaseColor(variantName) ==
  IF entriesWithVariant(toLowerCase(variantName)) # {}
  THEN Str(colorWords[firstOf(entriesWithVariant(toLowerCase(variantName)))].name)
  ELSE NullV

FindBaseColor ==
  /\ pc = "call"
  /\ result' = findBaseColor(base)
  /\ pc' = "findBaseColor"
  /\ UNCHANGED <<heap, before, base, override, provider>>

NextBaseColor == FindBaseColor

SpecBaseColor == InitWords /\ [][NextBaseColor]_vars

\* C28: for a word that findBaseColor gives a colour name for,
\* findColorByWord gives the hex of the entry of that name.
C28_VariantLookupsAgree ==
  (pc = "findBaseColor" /\ result # NullV) =>
    findColorByWord(base) = Str(EntryOf(result.s).hex)

(***************************************************************************)
(* utils/patterns.ts: createHighContrast.  The colours of the base theme   *)
(* are spread first, and the eight fixed colours are written over them.    *)
(***************************************************************************)
HighContrastColors ==
  [primaryContent |-> Str("#FFFFFF"), secondaryContent |-> Str("#FFFFFF"),
   accentContent |-> Str("#FFFFFF"), background |-> Str("#FFFFFF"),
   backgroundContent |-> Str("#000000"), text |-> Str("#000000"),
   textAlt |-> Str("#1A1A1A"), textMuted |-> Str("#4A4A4A")]

\* { ...baseTheme.colors }: nothing for undefined
spreadOf(v) == IF v.t = "obj" THEN v.f ELSE EmptyObject

createHighContrast(baseTheme) ==
  Obj([colors |-> Obj(HighContrastColors @@ spreadOf(Property(baseTheme, "colors")))])

(***************************************************************************)
(* Base themes handed to createHighContrast: dark, middle and light        *)
(* 6-digit hex colours for the three roles it keeps, with and without the  *)
(* colours it overwrites, and a theme without colors.                      *)
(***************************************************************************)
KeptColorValues ==
  {Str("#5E81AC"), Str("#88C0D0"), Str("#FFFFFF"), Str("#000000"), Str("#0052CC")}
HighContrastBases ==
  {Obj(EmptyObject)} \cup
  {Obj([colors |-> Obj(a @@ b)]) :
     a \in PartialObjects({"primary", "secondary", "accent"}, KeptColorValues),
     b \in PartialObjects({"text", "primaryContent"}, {Str("#2E3440")})}

InitHighContrast ==
  /\ override \in HighContrastBases
  /\ result = Undefined
  /\ pc = "call"
  /\ heap = <<>>
  /\ before = <<>>
  /\ base = Undefined
  /\ themeName = "nord"
  /\ systemTheme = "light"
  /\ activeTheme = Undefined
  /\ context = Undefined
  /\ renders = 0
  /\ enclosing = NullV
  /\ NoAsync

CreateHighContrast ==
  /\ pc = "call"
  /\ result' = createHighContrast(override)
  /\ pc' = "createHighContrast"
  /\ UNCHANGED <<heap, before, base, override, provider>>

NextHighContrast == CreateHighContrast

SpecHighContrast == InitHighContrast /\ [][NextHighContrast]_vars

HighContrastPairs ==
  <<<<"primaryContent", "primary">>, <<"secondaryContent", "secondary">>,
    <<"accentContent", "accent">>, <<"text", "background">>>>

\* C29: in the theme createHighContrast returns for a base theme of 6-digit
\* hex colours, each of the pairs primaryContent/primary,
\* secondaryContent/secondary, accentContent/accent and text/background that
\* is present has a contrast ratio of at least 4.5, and the accessibility
\* pass of validateOverride finds no error in it.
C29_HighContrastIsAccessible ==
  pc = "createHighContrast" =>
    /\ \A i \in DOMAIN HighContrastPairs :
         PairPresent(ColorsOf(result), HighContrastPairs[i]) =>
           ~ratioBelow(PairRatio(ColorsOf(result), HighContrastPairs[i]),
                       MinContrastAA[1], MinContrastAA[2])
    /\ validateAccessibility(ColorsOf(result)).errors = <<>>

====
